---- MODULE Spec2Model ----
(***************************************************************************)
(* A model of minim, a discrete-event single-bottleneck network simulator. *)
(*                                                                         *)
(* Units.  Times are nanoseconds and sizes are bytes, as in the code.      *)
(* Rates are kept in Mbit/s instead of bit/s so that every product stays   *)
(* inside TLC's integers; BitsPerSec::length then reads                    *)
(* round(size * 8000 / rate).  Rust indices are 0-based: index idx of a    *)
(* Vec is element idx + 1 of the sequence that models it.                  *)
(***************************************************************************)
EXTENDS Integers, Sequences, FiniteSets, Bags, TLC

VARIABLES
    \* ---- the simulation (src/src/simulation.rs, src/src/driver.rs) ----
    cfg,         \* the Config handed to run
    cur_time,    \* Simulation::cur_time
    schedule,    \* Simulation::schedule, a bag of events
    workload,    \* Workload::flows, sorted by start
    sources,     \* the Source of every source id
    btl,         \* the Bottleneck without its port: bandwidth, status, qsize, threshold
    aborted,     \* "" or the assertion that stopped the program
    error,       \* "" or the driver::Error that run returned
    \* ---- observation of the simulation (not program state) ----
    lastEv,      \* the event dispatched last, with what its handler was seen to do
    nDisp,       \* number of events dispatched
    acked,       \* per flow: bytes of the Acks delivered, and of those applied
    \* ---- one flow driven by hand (src/src/flow.rs) ----
    flw,         \* the Flow
    fly,         \* payload bytes of the packets sent and not yet acknowledged
    \* ---- observation of the flow (not program state) ----
    nMarked,     \* number of marked Acks the flow has received
    lastAck,     \* the last Ack received and the flow as it was before it
    \* ---- the bottleneck port (src/src/port.rs) ----
    port,        \* Port {queues, quanta, deficits, counter, should_bump}
    \* ---- observation of the port's callers (not program state) ----
    lastPick,    \* what the last pick_dequeue_index call saw and returned
    awaiting,    \* the index picked and not yet dequeued, or None
    deqSeq,      \* indices returned by the successive pick + dequeue calls
    nEnq,        \* number of packets enqueued so far
    dirty,       \* dirty[i]: queue i went empty with deficit left, not reset since
    staleCredit, \* a quantum was credited to a queue that was still dirty
    phase,       \* the caller's script: "fill" | "drain" | "ops" | "sim" | "flow"
    pktSz        \* size of the packets of the fill-then-drain script

portVars == <<port, lastPick, awaiting, deqSeq, nEnq, dirty, staleCredit, phase, pktSz>>
simVars == <<cfg, cur_time, schedule, workload, sources, btl, aborted, error, lastEv, nDisp,
             acked>>
flowVars == <<flw, fly, nMarked, lastAck>>
vars == <<cfg, cur_time, schedule, workload, sources, btl, aborted, error, lastEv, nDisp, acked,
          flw, fly, nMarked, lastAck,
          port, lastPick, awaiting, deqSeq, nEnq, dirty, staleCredit, phase, pktSz>>

(***************************************************************************)
(* Bounds of the exploration.                                              *)
(***************************************************************************)
MaxQuantum == 3      \* fill-then-drain script: quanta are drawn from 1..MaxQuantum
MaxPortQuantum == 2  \* free port script: quanta are drawn from 1..MaxPortQuantum
MaxPktSize == 2      \* port packets have sizes 1..MaxPktSize
MaxPortPkts == 4     \* packets enqueued in one run of the free port script
MaxFill == 6         \* packets per sub-queue in the fill-then-drain script

None == -1           \* Option::None of a queue index
Diverged == None - 1  \* the DRR loop did not return within its iteration budget

Min(a, b) == IF a <= b THEN a ELSE b
Max(a, b) == IF a >= b THEN a ELSE b

(***************************************************************************)
(* Queue: a FIFO of packets with its byte count.                           *)
(***************************************************************************)
Queue_default == [inner |-> <<>>, qsize |-> 0]

Queue_enqueue(q, pkt) ==
    [inner |-> Append(q.inner, pkt), qsize |-> q.qsize + pkt.size]

\* Only called on a non-empty queue here; the popped packet is Head(q.inner).
Queue_dequeue(q) ==
    [inner |-> Tail(q.inner), qsize |-> q.qsize - Head(q.inner).size]

Queue_is_empty(q) == q.inner = <<>>

Queue_peek(q) == Head(q.inner)

(***************************************************************************)
(* Port: N sub-queues served in deficit round-robin order.                 *)
(***************************************************************************)
Port_new(quanta) ==
    [queues      |-> [i \in 1..Len(quanta) |-> Queue_default],
     quanta      |-> quanta,
     deficits    |-> [i \in 1..Len(quanta) |-> 0],
     counter     |-> 0,
     should_bump |-> TRUE]

\* port[qindex].enqueue(pkt)
Port_enqueue(p, qindex, pkt) ==
    [p EXCEPT !.queues[qindex + 1] = Queue_enqueue(@, pkt)]

\* port[qindex].dequeue()
Port_dequeue(p, qindex) ==
    [p EXCEPT !.queues[qindex + 1] = Queue_dequeue(@)]

AllEmpty(p) == \A i \in 1..Len(p.queues) : Queue_is_empty(p.queues[i])

\* An empty queue met at the counter position: clear its deficit and move on.
SkipQueue(p, idx) ==
    [p EXCEPT !.deficits[idx + 1] = 0, !.counter = @ + 1, !.should_bump = TRUE]

\* The queue at the counter position is credited with its quantum, once per visit.
CreditEveryVisit(p, idx) ==
    [p EXCEPT !.deficits[idx + 1] = @ + p.quanta[idx + 1], !.should_bump = FALSE]

Credit(p, idx) ==
    IF p.should_bump
    THEN [p EXCEPT !.deficits[idx + 1] = @ + p.quanta[idx + 1], !.should_bump = FALSE]
    ELSE p

SkipEmptyOnce(p, start) ==
    LET n == Len(p.queues)
        idx == p.counter % n
    IN
    IF n = 0 \/ Queue_is_empty(p.queues[idx + 1])
    THEN [port |-> IF n = 0 THEN p ELSE SkipQueue(p, idx), all_empty |-> TRUE]
    ELSE [port |-> p, all_empty |-> FALSE]

\* The first loop of pick_dequeue_index: skip empty queues, at most one rotation.
RECURSIVE SkipEmpty(_, _)
SkipEmpty(p, start) ==
    LET n == Len(p.queues) IN
    IF p.counter - start = n
    THEN [port |-> p, all_empty |-> TRUE]
    ELSE LET idx == p.counter % n IN
         IF Queue_is_empty(p.queues[idx + 1])
         THEN SkipEmpty(SkipQueue(p, idx), start)
         ELSE [port |-> p, all_empty |-> FALSE]

\* The second loop.  `fuel` is the iteration budget of the model (the code has
\* none); `credited` collects the queues credited with a quantum during the call.
RECURSIVE DrrLoop(_, _, _, _)
DrrLoop(p, fuel, iters, credited) ==
    LET n == Len(p.queues)
        idx == p.counter % n
    IN
    IF fuel = 0
    THEN [port |-> p, res |-> Diverged, pre |-> 0, cost |-> 0, iters |-> iters,
          credited |-> credited]
    ELSE IF Queue_is_empty(p.queues[idx + 1])
    THEN DrrLoop(SkipQueue(p, idx), fuel - 1, iters + 1, credited)
    ELSE LET q == Credit(p, idx)
             cr == IF p.should_bump THEN credited \cup {idx} ELSE credited
             cost == Queue_peek(q.queues[idx + 1]).size
         IN IF q.deficits[idx + 1] >= cost
            THEN [port |-> [q EXCEPT !.deficits[idx + 1] = @ - cost],
                  res |-> idx, pre |-> q.deficits[idx + 1], cost |-> cost,
                  iters |-> iters + 1, credited |-> cr]
            ELSE DrrLoop([q EXCEPT !.counter = @ + 1, !.should_bump = TRUE],
                         fuel - 1, iters + 1, cr)

\* Largest head packet of the port, 0 when all queues are empty.
MaxHeadCost(p) ==
    LET costs == {Queue_peek(p.queues[i]).size :
                    i \in {j \in 1..Len(p.queues) : ~Queue_is_empty(p.queues[j])}}
    IN IF costs = {} THEN 0 ELSE CHOOSE c \in costs : \A d \in costs : d <= c

\* Iterations the second loop can need when every quantum is at least 1: one
\* visit without credit, then at most MaxHeadCost rotations of N visits.
PickBound(p) == Len(p.queues) * (MaxHeadCost(p) + 1) + 1

\* Port::pick_dequeue_index.  Returns the new port, the result (None or an
\* index), the deficit of the chosen queue before the deduction and its cost.
pick_dequeue_index(p) ==
    LET s == SkipEmpty(p, p.counter) IN
    IF s.all_empty
    THEN [port |-> s.port, res |-> None, pre |-> 0, cost |-> 0, iters |-> 0,
          credited |-> {}]
    ELSE DrrLoop(s.port, PickBound(s.port) + 1, 0, {})

\* Queues whose deficit the call reset to zero: the empty ones it visited.
ResetBy(p, r) ==
    {i \in 0..(Len(p.queues) - 1) :
        /\ Queue_is_empty(p.queues[i + 1])
        /\ \E c \in p.counter..(r.port.counter - 1) : c % Len(p.queues) = i}

\* tests::mk_pkt
mk_pkt(flow_id, qindex, size) ==
    [flow_id |-> flow_id, source_id |-> 0, qindex |-> qindex, size |-> size,
     is_last |-> FALSE, src2btl |-> 0, btl2dst |-> 0]

(***************************************************************************)
(* Units (src/src/units.rs, src/src/time.rs).                              *)
(***************************************************************************)
TimeMax == 1000000        \* stands for Time::MAX, the "never" wake-up time: above every time a run reaches
MinRate == 1000           \* Flow::min_rate, 1 Gbit/s in Mbit/s
NsBitsPerByte == 8000     \* (bytes * 1e9 * 8.0) / bps with bps = 1e6 * Mbit/s

\* f64::round of a non-negative quotient a / b (halves round up).
RoundDiv(a, b) == (2 * a + b) \div (2 * b)

\* BitsPerSec::length: nanoseconds needed to process `size` bytes at `rate`.
length(rate, size) ==
    IF size = 0 THEN 0 ELSE RoundDiv(size * NsBitsPerByte, rate)

\* u64::saturating_sub
saturating_sub(a, b) == IF a >= b THEN a - b ELSE 0

\* Packet::min_count_in
min_count_in(size, sz_pktmax) ==
    IF size = 0 THEN 0 ELSE size \div sz_pktmax + 1

(***************************************************************************)
(* Flow: the DCTCP sender (src/src/flow.rs).  alpha and gain are f64 in    *)
(* the code; here they are fixed-point numbers in units of 1 / AlphaDen,   *)
(* and AlphaNaN stands for the NaN that 0.0 / 0.0 produces.                *)
(***************************************************************************)
AlphaDen == 2 ^ 10
AlphaNaN == 0 - 1

Flow_new(desc, src, now, c) ==
    [id |-> desc.id, source |-> desc.source, qindex |-> desc.qindex,
     size |-> desc.size,
     src2btl |-> src.delay2btl, btl2dst |-> desc.delay2dst - src.delay2btl,
     rate |-> src.link_rate, min_rate |-> MinRate, max_rate |-> src.link_rate,
     tnext |-> now,
     window |-> c.window, snd_nxt |-> 0, snd_una |-> 0,
     alpha |-> AlphaDen, gain |-> c.dctcp_gain, additive_inc |-> c.dctcp_ai,
     last_update_seq |-> 0, batch_size |-> 0, marked_count |-> 0,
     ca_state |-> "Zero", high_seq |-> 0]

bytes_left(f) == saturating_sub(f.size, f.snd_nxt)

on_the_fly(f) == f.snd_nxt - f.snd_una

\* window.scale_by(rate / max_rate)
variable_window(f) == RoundDiv(f.window * f.rate, f.max_rate)

usable_window(f) == saturating_sub(variable_window(f), on_the_fly(f))

NeverRateBound(f, now) == FALSE
is_rate_bound(f, now) == f.tnext > now

NeverWinBound(f) == FALSE
is_win_bound(f) == usable_window(f) = 0

\* Flow::next_packet: the flow after the send, and the packet.
Flow_next_packet(f, now, c) ==
    LET sz_payload == Min(Min(bytes_left(f), c.sz_pktmax), usable_window(f))
        sz_pkt == sz_payload + c.sz_pkthdr
        g == [f EXCEPT !.snd_nxt = @ + sz_payload,
                       !.tnext = now + length(f.rate, sz_pkt)]
    IN [flow |-> g,
        ok |-> bytes_left(f) > 0 /\ usable_window(f) > 0,
        pkt |-> [flow_id |-> f.id, source_id |-> f.source, qindex |-> f.qindex,
                 size |-> sz_pkt, is_last |-> bytes_left(g) = 0,
                 src2btl |-> f.src2btl, btl2dst |-> f.btl2dst]]

\* (marked_count / batch_size).clamp(0.0, 1.0), in units of 1 / AlphaDen
MarkedFrac(marked_count, batch_size) ==
    IF batch_size = 0
    THEN (IF marked_count = 0 THEN AlphaNaN ELSE AlphaDen)
    ELSE Min(AlphaDen, (marked_count * AlphaDen) \div batch_size)

\* (1.0 - gain) * alpha + gain * frac
AlphaUpdate(alpha, gain, frac) ==
    IF alpha = AlphaNaN \/ frac = AlphaNaN THEN AlphaNaN
    ELSE ((AlphaDen - gain) * alpha + gain * frac) \div AlphaDen

\* rate.scale_by(1.0 - alpha / 2.0); a NaN factor casts to 0
RateReduce(rate, alpha) ==
    IF alpha = AlphaNaN THEN 0
    ELSE RoundDiv(rate * (2 * AlphaDen - alpha), 2 * AlphaDen)

\* the congestion state in which rcv_ack changes the rate
InAnyState(f) == TRUE
InOpen(f) == f.ca_state = "Zero"

\* min(max_rate, rate.saturating_add(additive_inc))
RateStepDown(f) == Min(f.max_rate, saturating_sub(f.rate, f.additive_inc))
RateIncrease(f) == Min(f.max_rate, f.rate + f.additive_inc)

\* Flow::rcv_ack
Flow_rcv_ack(f, ack, c) ==
    LET una == f.snd_una + ack.nr_bytes
        marked_count == IF ack.marked THEN f.marked_count + 1 ELSE f.marked_count
        new_batch == una > f.last_update_seq
        first == f.last_update_seq = 0
        f1 == IF ~new_batch
              THEN [f EXCEPT !.snd_una = una, !.marked_count = marked_count]
              ELSE IF first
              THEN [f EXCEPT !.snd_una = una, !.marked_count = marked_count,
                             !.batch_size = min_count_in(f.snd_nxt, c.sz_pktmax),
                             !.last_update_seq = f.snd_nxt]
              ELSE [f EXCEPT !.snd_una = una,
                             !.alpha = AlphaUpdate(f.alpha, f.gain,
                                          MarkedFrac(marked_count, f.batch_size)),
                             !.marked_count = 0,
                             !.batch_size = min_count_in(f.snd_nxt - una, c.sz_pktmax),
                             !.last_update_seq = f.snd_nxt]
        f2 == IF f1.ca_state = "One" /\ f1.snd_una > f1.high_seq
              THEN [f1 EXCEPT !.ca_state = "Zero"] ELSE f1
        f3 == IF InOpen(f2) /\ ack.marked
              THEN [f2 EXCEPT !.rate = Max(f2.min_rate, RateReduce(f2.rate, f2.alpha)),
                              !.ca_state = "One", !.high_seq = f2.snd_nxt]
              ELSE f2
    IN IF InOpen(f2) /\ new_batch
       THEN [f3 EXCEPT !.rate = RateIncrease(f3)]
       ELSE f3

(***************************************************************************)
(* Commands and events (src/src/simulation/event.rs, SourceCmd,            *)
(* BottleneckCmd, WorkloadCmd).  Every command carries the same fields so  *)
(* that events compare; a command leaves the fields it does not have at    *)
(* their defaults.                                                         *)
(***************************************************************************)
NoPkt == [flow_id |-> 0, source_id |-> 0, qindex |-> 0, size |-> 0,
          is_last |-> FALSE, src2btl |-> 0, btl2dst |-> 0]

NoDesc == [id |-> 0, source |-> 0, qindex |-> 0, size |-> 0, start |-> 0,
           delay2dst |-> 0]

Cmd(kind, source, flow, version, nr_bytes, marked, pkt, desc) ==
    [kind |-> kind, source |-> source, flow |-> flow, version |-> version,
     nr_bytes |-> nr_bytes, marked |-> marked, pkt |-> pkt, desc |-> desc]

WorkloadStepCmd == Cmd("WorkloadStep", 0, 0, 0, 0, FALSE, NoPkt, NoDesc)
TrySendCmd(id, version) == Cmd("TrySend", id, 0, version, 0, FALSE, NoPkt, NoDesc)
RcvAckCmd(source, flow, nr_bytes, marked) ==
    Cmd("RcvAck", source, flow, 0, nr_bytes, marked, NoPkt, NoDesc)
FlowArriveCmd(source, desc) ==
    Cmd("FlowArrive", source, desc.id, 0, 0, FALSE, NoPkt, desc)
FlowDepartCmd(source, flow) ==
    Cmd("FlowDepart", source, flow, 0, 0, FALSE, NoPkt, NoDesc)
ReceiveCmd(pkt) == Cmd("Receive", 0, 0, 0, 0, FALSE, pkt, NoDesc)
BottleneckStepCmd == Cmd("BottleneckStep", 0, 0, 0, 0, FALSE, NoPkt, NoDesc)

\* Context::schedule: an event `delta` after `now`
ScheduleAtDelta(now, delta, cmd) == [time |-> delta, cmd |-> cmd]

\* Context::schedule: Event::new(cur_time + delta, cmd)
Event(now, delta, cmd) == [time |-> now + delta, cmd |-> cmd]

(***************************************************************************)
(* FlowQ: the flows of a source in round-robin order                       *)
(* (src/src/entities/source.rs).                                           *)
(***************************************************************************)
FlowQ_default == [members |-> <<>>, order |-> <<>>, rr_next |-> 0]

MapRemove(m, k) == [x \in DOMAIN m \ {k} |-> m[x]]

SeqRemove(seq, idx) ==
    [k \in 1..(Len(seq) - 1) |-> IF k <= idx THEN seq[k] ELSE seq[k + 1]]

FlowQ_add_flow(fq, flow) ==
    [fq EXCEPT !.order = Append(@, flow.id),
               !.members = (flow.id :> flow) @@ @]

\* FlowQ::next_packet, the scan from position i of the round.  `mvt` is
\* min_viable_tnext, None while unset.
RECURSIVE FlowQ_scan(_, _, _, _, _)
FlowQ_scan(fq, now, i, mvt, c) ==
    LET nr_flows == Len(fq.order) IN
    IF i = nr_flows
    THEN (IF mvt # None
          THEN [kind |-> "RateBound", fq |-> fq, pkt |-> NoPkt, tnext |-> mvt,
                ok |-> mvt > now]
          ELSE [kind |-> "WinBound", fq |-> fq, pkt |-> NoPkt, tnext |-> 0,
                ok |-> TRUE])
    ELSE LET idx == (i + fq.rr_next) % nr_flows
             id == fq.order[idx + 1]
             flow == fq.members[id]
         IN IF ~is_rate_bound(flow, now) /\ ~is_win_bound(flow)
            THEN LET np == Flow_next_packet(flow, now, c)
                     drained == bytes_left(np.flow) = 0
                 IN [kind |-> "Found",
                     fq |-> [order |-> IF drained THEN SeqRemove(fq.order, idx)
                                       ELSE fq.order,
                             members |-> IF drained THEN MapRemove(fq.members, id)
                                         ELSE [fq.members EXCEPT ![id] = np.flow],
                             rr_next |-> idx + 1],
                     pkt |-> np.pkt, tnext |-> 0, ok |-> np.ok]
            ELSE IF is_rate_bound(flow, now) /\ ~is_win_bound(flow)
            THEN FlowQ_scan(fq, now, i + 1,
                            Min(flow.tnext, IF mvt = None THEN TimeMax ELSE mvt), c)
            ELSE FlowQ_scan(fq, now, i + 1, mvt, c)

FlowQ_next_packet(fq, now, c) ==
    IF fq.order = <<>>
    THEN [kind |-> "Empty", fq |-> fq, pkt |-> NoPkt, tnext |-> 0, ok |-> TRUE]
    ELSE FlowQ_scan(fq, now, 0, None, c)

(***************************************************************************)
(* Source: the per-source flow multiplexer.  Every handler returns the     *)
(* source after the call, the events it scheduled and whether it ran into  *)
(* one of the code's assertions (abort # "").                              *)
(***************************************************************************)
Source_new(id, desc) ==
    [id |-> id, delay2btl |-> desc.delay2btl, link_rate |-> desc.link_rate,
     earliest_tnext |-> 0, tnext |-> TimeMax,
     flow_queue |-> FlowQ_default, flow_info |-> <<>>,
     version |-> 0, records |-> <<>>]

Result(src, events, abort) == [src |-> src, events |-> events, abort |-> abort]

\* Source::try_send past its version check
SendWithoutRetry(src, now, c) ==
    LET r == FlowQ_next_packet(src.flow_queue, now, c)
        s == [src EXCEPT !.flow_queue = r.fq]
        bw_delta == length(src.link_rate, r.pkt.size)
    IN IF r.kind = "Found"
       THEN Result([s EXCEPT !.earliest_tnext = now + bw_delta,
                             !.tnext = now + bw_delta],
                   <<Event(now, src.delay2btl + bw_delta, ReceiveCmd(r.pkt))>>,
                   IF r.ok THEN "" ELSE "next_packet assertion")
       ELSE Result([s EXCEPT !.tnext = TimeMax], <<>>, "")
Source_send(src, now, c) ==
    LET r == FlowQ_next_packet(src.flow_queue, now, c)
        s == [src EXCEPT !.flow_queue = r.fq]
        bw_delta == length(src.link_rate, r.pkt.size)
    IN IF r.kind = "Found"
       THEN Result([s EXCEPT !.earliest_tnext = now + bw_delta,
                             !.tnext = now + bw_delta],
                   <<Event(now, src.delay2btl + bw_delta, ReceiveCmd(r.pkt)),
                     Event(now, bw_delta, TrySendCmd(src.id, src.version))>>,
                   IF r.ok THEN "" ELSE "next_packet assertion")
       ELSE IF r.kind = "RateBound"
       THEN Result([s EXCEPT !.tnext = r.tnext],
                   <<Event(now, r.tnext - now, TrySendCmd(src.id, src.version))>>,
                   IF r.ok THEN "" ELSE "assert tnext > now")
       ELSE Result([s EXCEPT !.tnext = TimeMax], <<>>, "")

TrySendIgnoringVersion(src, version, now, c) == Source_send(src, now, c)

\* Source::try_send
Source_try_send(src, version, now, c) ==
    IF version # src.version
    THEN Result(src, <<>>, "")
    ELSE Source_send(src, now, c)

\* Source::rcv_ack
RcvAckWakesWheneverWindow(src, flow_id, ack, now, c) ==
    IF flow_id \notin DOMAIN src.flow_queue.members
    THEN Result(src, <<>>, "")
    ELSE LET flow == Flow_rcv_ack(src.flow_queue.members[flow_id], ack, c)
             s == [src EXCEPT !.flow_queue.members[flow_id] = flow]
             tnext == Max(src.earliest_tnext, flow.tnext)
         IN IF ~is_win_bound(flow)
            THEN Result([s EXCEPT !.version = @ + 1, !.tnext = tnext],
                        <<Event(now, saturating_sub(tnext, now),
                                TrySendCmd(src.id, src.version + 1))>>,
                        "")
            ELSE Result(s, <<>>, "")
RcvAckIgnoresLink(src, flow_id, ack, now, c) ==
    IF flow_id \notin DOMAIN src.flow_queue.members
    THEN Result(src, <<>>, "")
    ELSE LET flow == Flow_rcv_ack(src.flow_queue.members[flow_id], ack, c)
             s == [src EXCEPT !.flow_queue.members[flow_id] = flow]
             tnext == flow.tnext
         IN IF ~is_win_bound(flow) /\ flow.tnext < src.tnext
            THEN Result([s EXCEPT !.version = @ + 1, !.tnext = tnext],
                        <<Event(now, saturating_sub(tnext, now),
                                TrySendCmd(src.id, src.version + 1))>>,
                        "")
            ELSE Result(s, <<>>, "")
RcvAckAlwaysWakes(src, flow_id, ack, now, c) ==
    Result([src EXCEPT !.version = @ + 1],
           <<Event(now, 0, TrySendCmd(src.id, src.version + 1))>>, "")
Source_rcv_ack(src, flow_id, ack, now, c) ==
    IF flow_id \notin DOMAIN src.flow_queue.members
    THEN Result(src, <<>>, "")
    ELSE LET flow == Flow_rcv_ack(src.flow_queue.members[flow_id], ack, c)
             s == [src EXCEPT !.flow_queue.members[flow_id] = flow]
             tnext == Max(src.earliest_tnext, flow.tnext)
         IN IF ~is_win_bound(flow) /\ flow.tnext < src.tnext
            THEN Result([s EXCEPT !.version = @ + 1, !.tnext = tnext],
                        <<Event(now, saturating_sub(tnext, now),
                                TrySendCmd(src.id, src.version + 1))>>,
                        "")
            ELSE Result(s, <<>>, "")

\* FlowInfo kept for the record of a departing flow
FlowInfoWholePath(desc, src) ==
    [id |-> desc.id, size |-> desc.size, start |-> desc.start,
     src2btl |-> src.delay2btl, btl2dst |-> desc.delay2dst,
     max_rate |-> src.link_rate]
FlowInfo(desc, src) ==
    [id |-> desc.id, size |-> desc.size, start |-> desc.start,
     src2btl |-> src.delay2btl, btl2dst |-> desc.delay2dst - src.delay2btl,
     max_rate |-> src.link_rate]

\* Source::flow_arrive
FlowArriveAlwaysSends(src, desc, now, c) ==
    Source_try_send([src EXCEPT !.flow_info = (desc.id :> FlowInfo(desc, src)) @@ @,
                                !.flow_queue = FlowQ_add_flow(@, Flow_new(desc, src, now, c)),
                                !.version = @ + 1],
                    src.version + 1, now, c)
Source_flow_arrive(src, desc, now, c) ==
    LET flow == Flow_new(desc, src, now, c)
        s == [src EXCEPT !.flow_info = (desc.id :> FlowInfo(desc, src)) @@ @,
                         !.flow_queue = FlowQ_add_flow(@, flow)]
    IN IF desc.delay2dst < src.delay2btl
       THEN Result(src, <<>>, "delay2dst - delay2btl underflow")
       ELSE IF desc.id \in DOMAIN src.flow_queue.members
       THEN Result(src, <<>>, "add_flow assertion")
       ELSE IF src.earliest_tnext <= now /\ now < src.tnext
       THEN Source_try_send([s EXCEPT !.version = @ + 1], src.version + 1, now, c)
       ELSE Result(s, <<>>, "")

\* The ideal FCT of Source::flow_depart
IdealFct(info, c) ==
    LET bw_hop1 == info.max_rate
        bw_hop2 == c.bandwidth
        bw_min == Min(bw_hop1, bw_hop2)
        sz_head_ == Min(c.sz_pktmax, info.size)
        sz_head == IF sz_head_ # 0 THEN sz_head_ + c.sz_pkthdr ELSE 0
        sz_rest_ == info.size - sz_head_
        nr_full_pkts == sz_rest_ \div c.sz_pktmax
        sz_full_pkt == c.sz_pktmax + c.sz_pkthdr
        sz_partial_pkt_ == sz_rest_ % c.sz_pktmax
        sz_partial_pkt == IF sz_partial_pkt_ # 0 THEN sz_partial_pkt_ + c.sz_pkthdr ELSE 0
        head_delay == length(bw_hop1, sz_head) + length(bw_hop2, sz_head)
        rest_delay == length(bw_min, sz_full_pkt) * nr_full_pkts
                        + length(bw_min, sz_partial_pkt)
        prop_delay == info.src2btl + info.btl2dst
    IN head_delay + rest_delay + prop_delay

\* Source::flow_depart
Source_flow_depart(src, flow_id, now, c) ==
    IF flow_id \notin DOMAIN src.flow_info
    THEN Result(src, <<>>, "missing flow record")
    ELSE LET info == src.flow_info[flow_id]
             record == [id |-> info.id, size |-> info.size, start |-> info.start,
                        fct |-> now - info.start, ideal |-> IdealFct(info, c)]
         IN Result([src EXCEPT !.flow_info = MapRemove(@, flow_id),
                               !.records = Append(@, record)],
                   <<>>, "")

(***************************************************************************)
(* Bottleneck (src/src/entities/bottleneck.rs).  Its queueing discipline   *)
(* is the DRR port: enqueue goes to the sub-queue the packet names,        *)
(* dequeue takes the head of the sub-queue pick_dequeue_index chooses.     *)
(***************************************************************************)
AckWholePacket(pkt, c) == pkt.size

\* nr_bytes_to_ack: the payload of the packet
AckBytes(pkt, c) == pkt.size - c.sz_pkthdr

\* Packet::hrtt: half a round trip, source to destination
OneWayToBottleneck(pkt) == pkt.src2btl
hrtt(pkt) == pkt.src2btl + pkt.btl2dst

Bottleneck_new(c) ==
    [bandwidth |-> c.bandwidth, status |-> "Blocked", qsize |-> 0,
     marking_threshold |-> c.dctcp_marking_threshold]

BResult(b, p, events, abort) ==
    [btl |-> b, port |-> p, events |-> events, abort |-> abort]

\* Bottleneck::step
StepStaysRunning(b, p, now, c) ==
    IF b.status # "Running"
    THEN BResult(b, p, <<>>, "assert status == Running")
    ELSE LET r == pick_dequeue_index(p) IN
         IF r.res = Diverged
         THEN BResult(b, r.port, <<>>, "pick_dequeue_index does not return")
         ELSE IF r.res = None
         THEN BResult(b, r.port, <<>>, "")
         ELSE LET pkt == Queue_peek(r.port.queues[r.res + 1])
                  qsize == b.qsize - pkt.size
                  bw_delta == length(b.bandwidth, pkt.size)
                  prop_delta == pkt.btl2dst + hrtt(pkt)
                  marked == qsize > b.marking_threshold
                  step == Event(now, bw_delta, BottleneckStepCmd)
                  ack == Event(now, bw_delta + prop_delta,
                               RcvAckCmd(pkt.source_id, pkt.flow_id,
                                         AckBytes(pkt, c), marked))
                  depart == Event(now, bw_delta + pkt.btl2dst,
                                  FlowDepartCmd(pkt.source_id, pkt.flow_id))
              IN BResult([b EXCEPT !.qsize = qsize],
                         Port_dequeue(r.port, r.res),
                         IF pkt.is_last THEN <<step, ack, depart>> ELSE <<step, ack>>,
                         "")
Bottleneck_step(b, p, now, c) ==
    IF b.status # "Running"
    THEN BResult(b, p, <<>>, "assert status == Running")
    ELSE LET r == pick_dequeue_index(p) IN
         IF r.res = Diverged
         THEN BResult(b, r.port, <<>>, "pick_dequeue_index does not return")
         ELSE IF r.res = None
         THEN BResult([b EXCEPT !.status = "Blocked"], r.port, <<>>, "")
         ELSE LET pkt == Queue_peek(r.port.queues[r.res + 1])
                  qsize == b.qsize - pkt.size
                  bw_delta == length(b.bandwidth, pkt.size)
                  prop_delta == pkt.btl2dst + hrtt(pkt)
                  marked == qsize > b.marking_threshold
                  step == Event(now, bw_delta, BottleneckStepCmd)
                  ack == Event(now, bw_delta + prop_delta,
                               RcvAckCmd(pkt.source_id, pkt.flow_id,
                                         AckBytes(pkt, c), marked))
                  depart == Event(now, bw_delta + pkt.btl2dst,
                                  FlowDepartCmd(pkt.source_id, pkt.flow_id))
              IN BResult([b EXCEPT !.qsize = qsize],
                         Port_dequeue(r.port, r.res),
                         IF pkt.is_last THEN <<step, ack, depart>> ELSE <<step, ack>>,
                         "")

\* Bottleneck::receive
ReceiveAndStep(b, p, pkt, now, c) ==
    Bottleneck_step([b EXCEPT !.qsize = @ + pkt.size, !.status = "Running"],
                    Port_enqueue(p, pkt.qindex, pkt), now, c)
Bottleneck_receive(b, p, pkt, now, c) ==
    IF pkt.qindex >= Len(p.queues)
    THEN BResult(b, p, <<>>, "queue index out of bounds")
    ELSE LET q == Port_enqueue(p, pkt.qindex, pkt)
             e == [b EXCEPT !.qsize = @ + pkt.size]
         IN IF b.status = "Running"
            THEN BResult(e, q, <<>>, "")
            ELSE Bottleneck_step([e EXCEPT !.status = "Running"], q, now, c)

(***************************************************************************)
(* Workload (src/src/entities/workload.rs) and the driver's sort.          *)
(***************************************************************************)
\* Insert d behind every element that does not start later: a stable sort.
RECURSIVE InsertByStart(_, _)
InsertByStart(sorted, d) ==
    IF sorted = <<>> THEN <<d>>
    ELSE IF d.start < Head(sorted).start THEN <<d>> \o sorted
    ELSE <<Head(sorted)>> \o InsertByStart(Tail(sorted), d)

\* cfg.flows.sort_by_key(|f| f.start)
KeepOrder(flows) == flows
RECURSIVE SortByStart(_)
SortByStart(flows) ==
    IF flows = <<>> THEN <<>>
    ELSE InsertByStart(SortByStart(SubSeq(flows, 1, Len(flows) - 1)),
                       flows[Len(flows)])

\* Workload::step: the rest of the list, the events, an underflowing delta
Workload_step(w, now) ==
    IF w = <<>> THEN [workload |-> w, events |-> <<>>, abort |-> ""]
    ELSE LET flow == Head(w)
             rest == Tail(w)
             arrive == Event(now, flow.start - now, FlowArriveCmd(flow.source, flow))
         IN [workload |-> rest,
             events |-> IF rest = <<>> THEN <<arrive>>
                        ELSE <<arrive, Event(now, Head(rest).start - now, WorkloadStepCmd)>>,
             abort |-> IF flow.start < now \/ (rest # <<>> /\ Head(rest).start < now)
                       THEN "time subtraction underflow" ELSE ""]

(***************************************************************************)
(* The port driven directly through its API, as the unit tests of port.rs  *)
(* drive it.  Two caller scripts:                                          *)
(*   "ops"         any interleaving of enqueue, pick_dequeue_index and the *)
(*                 dequeue that has to follow a successful pick;           *)
(*   "fill"/"drain" tests::check_drr_sequence: equal-size packets are      *)
(*                 enqueued, then the port is drained pick by pick.        *)
(***************************************************************************)
NoPick == [called |-> FALSE, res |-> None, pre |-> 0, cost |-> 0,
           was_all_empty |-> TRUE, iters |-> 0, bound |-> 0]

PickRecord(p, r) ==
    [called |-> TRUE, res |-> r.res, pre |-> r.pre, cost |-> r.cost,
     was_all_empty |-> AllEmpty(p), iters |-> r.iters, bound |-> PickBound(p)]

PortQuantaWithZero ==
    {<<a>> : a \in 0..MaxPortQuantum} \cup {<<a, b>> : a, b \in 0..MaxPortQuantum}

\* Quanta vectors of the free script: one or two sub-queues, every quantum
\* positive as driver::run demands.
PortQuanta ==
    {<<a>> : a \in 1..MaxPortQuantum} \cup {<<a, b>> : a, b \in 1..MaxPortQuantum}

\* Quanta vectors of the fill-then-drain script: two sub-queues, positive quanta.
DrrQuanta == {<<a, b>> : a, b \in 1..MaxQuantum}

QIndices(p) == 0..(Len(p.queues) - 1)

\* The simulation is not running in the port scripts.
NoSim ==
    /\ cfg = <<>> /\ cur_time = 0 /\ schedule = EmptyBag /\ workload = <<>>
    /\ sources = <<>> /\ btl = <<>> /\ aborted = "" /\ error = "" /\ lastEv = <<>>
    /\ nDisp = 0 /\ acked = <<>>

\* No flow is driven by hand.
NoFlow == flw = <<>> /\ fly = <<>> /\ nMarked = 0 /\ lastAck = <<>>

InitPortCommon ==
    /\ NoSim
    /\ NoFlow
    /\ lastPick = NoPick
    /\ awaiting = None
    /\ deqSeq = <<>>
    /\ nEnq = 0
    /\ dirty = [i \in QIndices(port) |-> FALSE]
    /\ staleCredit = FALSE

InitPort ==
    /\ port \in {Port_new(q) : q \in PortQuanta}
    /\ phase = "ops"
    /\ pktSz = 0
    /\ InitPortCommon

InitDrr ==
    /\ port \in {Port_new(q) : q \in DrrQuanta}
    /\ phase = "fill"
    /\ pktSz \in 1..MaxPktSize
    /\ InitPortCommon

\* port[qindex].enqueue(mk_pkt(..)) at any moment
PortEnqueue ==
    /\ phase = "ops"
    /\ nEnq < MaxPortPkts
    /\ \E qi \in QIndices(port), sz \in 1..MaxPktSize :
          port' = Port_enqueue(port, qi, mk_pkt(qi, qi, sz))
    /\ nEnq' = nEnq + 1
    /\ UNCHANGED <<lastPick, awaiting, deqSeq, dirty, staleCredit, phase, pktSz>>
    /\ UNCHANGED <<simVars, flowVars>>

\* port.pick_dequeue_index(); calls that find nothing are not repeated forever
PortPick ==
    /\ phase = "ops"
    /\ awaiting = None
    /\ ~(lastPick.called /\ lastPick.res = None /\ AllEmpty(port))
    /\ LET r == pick_dequeue_index(port) IN
          /\ port' = r.port
          /\ lastPick' = PickRecord(port, r)
          /\ awaiting' = IF r.res >= 0 THEN r.res ELSE None
          /\ staleCredit' = (staleCredit \/ \E i \in r.credited : dirty[i])
          /\ dirty' = [i \in QIndices(port) |->
                          IF i \in ResetBy(port, r) THEN FALSE ELSE dirty[i]]
    /\ UNCHANGED <<deqSeq, nEnq, phase, pktSz>>
    /\ UNCHANGED <<simVars, flowVars>>

\* port[idx].dequeue() for the idx just picked
PortDequeue ==
    /\ phase = "ops"
    /\ awaiting # None
    /\ ~Queue_is_empty(port.queues[awaiting + 1])
    /\ port' = Port_dequeue(port, awaiting)
    /\ dirty' = [dirty EXCEPT ![awaiting] =
                    @ \/ (Queue_is_empty(port'.queues[awaiting + 1])
                              /\ port.deficits[awaiting + 1] > 0)]
    /\ awaiting' = None
    /\ UNCHANGED <<lastPick, deqSeq, nEnq, staleCredit, phase, pktSz>>
    /\ UNCHANGED <<simVars, flowVars>>

NextPort == PortEnqueue \/ PortPick \/ PortDequeue

SpecPort == InitPort /\ [][NextPort]_vars

\* One more packet of the script's size into sub-queue qi
DrrFill ==
    /\ phase = "fill"
    /\ \E qi \in QIndices(port) :
          /\ Len(port.queues[qi + 1].inner) < MaxFill
          /\ port' = Port_enqueue(port, qi, mk_pkt(qi, qi, pktSz))
    /\ nEnq' = nEnq + 1
    /\ UNCHANGED <<lastPick, awaiting, deqSeq, dirty, staleCredit, phase, pktSz>>
    /\ UNCHANGED <<simVars, flowVars>>

DrrStartDrain ==
    /\ phase = "fill"
    /\ phase' = "drain"
    /\ UNCHANGED <<port, lastPick, awaiting, deqSeq, nEnq, dirty, staleCredit, pktSz>>
    /\ UNCHANGED <<simVars, flowVars>>

\* One step of tests::check_drr_sequence: pick, then dequeue what was picked.
\* The pick after the last packet is the test's final is_none() call.
DrrDequeue ==
    /\ phase = "drain"
    /\ ~(lastPick.called /\ lastPick.res = None)
    /\ LET r == pick_dequeue_index(port)
           ok == r.res >= 0 /\ ~Queue_is_empty(r.port.queues[r.res + 1])
       IN /\ lastPick' = PickRecord(port, r)
          /\ port' = IF ok THEN Port_dequeue(r.port, r.res) ELSE r.port
          /\ deqSeq' = IF ok THEN Append(deqSeq, r.res) ELSE deqSeq
    /\ UNCHANGED <<awaiting, nEnq, dirty, staleCredit, phase, pktSz>>
    /\ UNCHANGED <<simVars, flowVars>>

NextDrr == DrrFill \/ DrrStartDrain \/ DrrDequeue

SpecDrr == InitDrr /\ [][NextDrr]_vars

\* The script again with packets of size pktSz[i + 1] in sub-queue i, so
\* that bytes and packets are not proportional.
InitDrrSized ==
    /\ port \in {Port_new(q) : q \in DrrQuanta}
    /\ phase = "fill"
    /\ pktSz \in (1..MaxPktSize) \X (1..MaxPktSize)
    /\ InitPortCommon

DrrFillSized ==
    /\ phase = "fill"
    /\ \E qi \in QIndices(port) :
          /\ Len(port.queues[qi + 1].inner) < MaxFill
          /\ port' = Port_enqueue(port, qi, mk_pkt(qi, qi, pktSz[qi + 1]))
    /\ nEnq' = nEnq + 1
    /\ UNCHANGED <<lastPick, awaiting, deqSeq, dirty, staleCredit, phase, pktSz>>
    /\ UNCHANGED <<simVars, flowVars>>

NextDrrSized == DrrFillSized \/ DrrStartDrain \/ DrrDequeue

SpecDrrSized == InitDrrSized /\ [][NextDrrSized]_vars

(***************************************************************************)
(* The simulation (src/src/simulation.rs, src/src/driver.rs).              *)
(* Configurations are drawn from a small space: two access links, one or   *)
(* two flows, bottlenecks slower and faster than the links, windows below, *)
(* at and above one packet, a marking threshold that marks and one that    *)
(* never does.  Rates are in Mbit/s, times in ns, sizes in bytes.          *)
(***************************************************************************)
MaxFlowSize == 4     \* payload bytes of the largest flow
MaxTime == 700       \* no event of a run is dispatched later than this

SzPktMax == 2
SzPktHdr == 1
Gain == AlphaDen \div 16
SourceDescs ==
    << [id |-> 1, delay2btl |-> 1, link_rate |-> 8000],
       [id |-> 2, delay2btl |-> 2, link_rate |-> 16000] >>
Bandwidths == {2000, 16000}
Windows == {1, SzPktMax, 2 * SzPktMax}
Thresholds == {0, 100}
AdditiveIncs == {1000}
Delay2Dst == 3
LateStart == 3

FlowDesc(id, source, qindex, size, start) ==
    [id |-> id, source |-> source, qindex |-> qindex, size |-> size,
     start |-> start, delay2dst |-> Delay2Dst]

\* one flow; two flows: same or different source, same or different
\* sub-queue, equal starts, and starts listed in and out of order; three
\* flows of two packets each arriving together on one source
FlowLists(nq) ==
    { << FlowDesc(1, 1, 0, sz, 0) >> : sz \in 1..MaxFlowSize }
    \cup
    { << FlowDesc(1, 1, 0, sz[1], st[1]), FlowDesc(2, src, q, sz[2], st[2]) >> :
        sz \in (1..MaxFlowSize) \X (1..MaxFlowSize),
        st \in {<<0, 0>>, <<0, LateStart>>, <<LateStart, 0>>},
        src \in {1, 2},
        q \in {nq - 1} }
    \cup
    { << FlowDesc(1, 1, 0, sz, 0), FlowDesc(2, 1, 0, sz, 0), FlowDesc(3, 1, 0, sz, 0) >> :
        sz \in {SzPktMax + 1} }

Configs ==
    { [sources |-> SourceDescs, flows |-> fl, bandwidth |-> bw, quanta |-> qu,
       window |-> w, dctcp_marking_threshold |-> th, dctcp_gain |-> Gain,
       dctcp_ai |-> ai, sz_pktmax |-> SzPktMax, sz_pkthdr |-> SzPktHdr,
       timeout |-> None] :
        qu \in {<<MaxQuantum>>, <<1, MaxQuantum>>},
        fl \in FlowLists(1) \cup FlowLists(2),
        bw \in Bandwidths, w \in Windows, th \in Thresholds, ai \in AdditiveIncs }

FlowIds(c) == {c.flows[k].id : k \in DOMAIN c.flows}

\* the sources map built by driver::run
SourceMap(c) ==
    LET ids == {c.sources[k].id : k \in DOMAIN c.sources}
    IN [id \in ids |->
          Source_new(id, c.sources[CHOOSE k \in DOMAIN c.sources : c.sources[k].id = id])]

\* driver::run's check of the quanta
QuantaFirstOk(quanta) == quanta = <<>> \/ quanta[1] > 0
QuantaOk(quanta) == \A k \in DOMAIN quanta : quanta[k] > 0

\* driver::run up to the call of Simulation::run: either it has returned
\* Err(InvalidQuanta), and no simulation was built, or the simulation is
\* about to enter its loop.
DriverRun(c) ==
    /\ NoFlow
    /\ cfg = c
    /\ cur_time = 0
    /\ aborted = ""
    /\ nDisp = 0
    /\ lastPick = NoPick
    /\ awaiting = None
    /\ deqSeq = <<>>
    /\ nEnq = 0
    /\ staleCredit = FALSE
    /\ phase = "sim"
    /\ pktSz = 0
    /\ IF ~QuantaOk(c.quanta)
       THEN /\ error = "InvalidQuanta"
            /\ schedule = EmptyBag
            /\ workload = <<>>
            /\ sources = <<>>
            /\ btl = <<>>
            /\ port = <<>>
            /\ lastEv = <<>>
            /\ acked = <<>>
            /\ dirty = <<>>
       ELSE /\ error = ""
            /\ schedule = SetToBag({Event(0, 0, WorkloadStepCmd)})
            /\ workload = SortByStart(c.flows)
            /\ sources = SourceMap(c)
            /\ btl = Bottleneck_new(c)
            /\ port = Port_new(c.quanta)
            /\ lastEv = [ev |-> Event(0, 0, WorkloadStepCmd), stale |-> FALSE]
            /\ acked = [id \in FlowIds(c) |-> [delivered |-> 0, applied |-> 0]]
            /\ dirty = [i \in 0..(Len(c.quanta) - 1) |-> FALSE]

\* run on a well-formed configuration
Init ==
    \E c \in Configs :
        /\ \A k \in DOMAIN c.flows : c.flows[k].qindex < Len(c.quanta)
        /\ DriverRun(c)

\* Simulation::should_stop
StopWhenEmpty == schedule = EmptyBag
should_stop ==
    \/ schedule = EmptyBag
    \/ cur_time > (IF cfg.timeout = None THEN TimeMax ELSE cfg.timeout)

\* Schedule::pop yields an event of the least time; which one among
\* several of that time is not determined.
CanPop(ev) ==
    /\ phase = "sim"
    /\ aborted = ""
    /\ ~should_stop
    /\ BagIn(ev, schedule)
    /\ \A e \in BagToSet(schedule) : ev.time <= e.time
    /\ ev.time <= MaxTime

EventBag(events) ==
    LET S == {events[k] : k \in DOMAIN events}
    IN [e \in S |-> Cardinality({k \in DOMAIN events : events[k] = e})]

\* Simulation::step around the handler: pop, assert, advance the clock,
\* push what the handler scheduled.
Commit(ev, events, abort, stale) ==
    /\ cur_time' = ev.time
    /\ schedule' = (schedule (-) SetToBag({ev})) (+) EventBag(events)
    /\ aborted' = IF cur_time > ev.time THEN "assert cur_time <= time" ELSE abort
    /\ lastEv' = [ev |-> ev, stale |-> stale]
    /\ nDisp' = nDisp + 1
    /\ UNCHANGED <<cfg, error, lastPick, awaiting, deqSeq, nEnq, dirty, staleCredit,
                   phase, pktSz>>
    /\ UNCHANGED flowVars

\* WorkloadCmd::Step
WorkloadStep ==
    \E ev \in BagToSet(schedule) :
        /\ CanPop(ev)
        /\ ev.cmd.kind = "WorkloadStep"
        /\ LET r == Workload_step(workload, ev.time)
           IN /\ workload' = r.workload
              /\ Commit(ev, r.events, r.abort, FALSE)
        /\ UNCHANGED <<sources, btl, port, acked>>

\* A command for a source: the simulation looks the source up by id and
\* hands it the command.
SourceApply(ev, r, stale) ==
    /\ sources' = [sources EXCEPT ![ev.cmd.source] = r.src]
    /\ Commit(ev, r.events, r.abort, stale)
    /\ UNCHANGED <<workload, btl, port>>

\* SourceCmd::TrySend
SourceTrySend ==
    \E ev \in BagToSet(schedule) :
        /\ CanPop(ev)
        /\ ev.cmd.kind = "TrySend"
        /\ ev.cmd.source \in DOMAIN sources
        /\ LET src == sources[ev.cmd.source]
           IN SourceApply(ev, Source_try_send(src, ev.cmd.version, ev.time, cfg),
                          ev.cmd.version # src.version)
        /\ UNCHANGED acked

\* SourceCmd::RcvAck
SourceRcvAck ==
    \E ev \in BagToSet(schedule) :
        /\ CanPop(ev)
        /\ ev.cmd.kind = "RcvAck"
        /\ ev.cmd.source \in DOMAIN sources
        /\ LET src == sources[ev.cmd.source]
               ack == [nr_bytes |-> ev.cmd.nr_bytes, marked |-> ev.cmd.marked]
               held == ev.cmd.flow \in DOMAIN src.flow_queue.members
           IN /\ SourceApply(ev, Source_rcv_ack(src, ev.cmd.flow, ack, ev.time, cfg),
                             FALSE)
              /\ acked' = [acked EXCEPT
                             ![ev.cmd.flow].delivered = @ + ack.nr_bytes,
                             ![ev.cmd.flow].applied =
                                 IF held THEN @ + ack.nr_bytes ELSE @]

\* SourceCmd::FlowArrive
SourceFlowArrive ==
    \E ev \in BagToSet(schedule) :
        /\ CanPop(ev)
        /\ ev.cmd.kind = "FlowArrive"
        /\ IF ev.cmd.source \in DOMAIN sources
           THEN SourceApply(ev, Source_flow_arrive(sources[ev.cmd.source],
                                                  ev.cmd.desc, ev.time, cfg),
                            FALSE)
           ELSE /\ Commit(ev, <<>>, "no source of this id", FALSE)
                /\ UNCHANGED <<workload, sources, btl, port>>
        /\ UNCHANGED acked

\* SourceCmd::FlowDepart
SourceFlowDepart ==
    \E ev \in BagToSet(schedule) :
        /\ CanPop(ev)
        /\ ev.cmd.kind = "FlowDepart"
        /\ ev.cmd.source \in DOMAIN sources
        /\ SourceApply(ev, Source_flow_depart(sources[ev.cmd.source],
                                              ev.cmd.flow, ev.time, cfg),
                       FALSE)
        /\ UNCHANGED acked

BottleneckApply(ev, r) ==
    /\ btl' = r.btl
    /\ port' = r.port
    /\ Commit(ev, r.events, r.abort, FALSE)
    /\ UNCHANGED <<workload, sources, acked>>

\* BottleneckCmd::Receive
BottleneckReceive ==
    \E ev \in BagToSet(schedule) :
        /\ CanPop(ev)
        /\ ev.cmd.kind = "Receive"
        /\ BottleneckApply(ev, Bottleneck_receive(btl, port, ev.cmd.pkt, ev.time, cfg))

\* BottleneckCmd::Step
BottleneckStep ==
    \E ev \in BagToSet(schedule) :
        /\ CanPop(ev)
        /\ ev.cmd.kind = "BottleneckStep"
        /\ BottleneckApply(ev, Bottleneck_step(btl, port, ev.time, cfg))

Next ==
    \/ WorkloadStep
    \/ SourceTrySend
    \/ SourceRcvAck
    \/ SourceFlowArrive
    \/ SourceFlowDepart
    \/ BottleneckReceive
    \/ BottleneckStep

Spec == Init /\ [][Next]_vars

(***************************************************************************)
(* run on configurations that driver::run may have to refuse: a quantum    *)
(* of zero, no quantum at all, a destination nearer than the bottleneck,   *)
(* a flow of a source that is not configured, a flow of no bytes.          *)
(***************************************************************************)
DriverQuanta ==
    {<<MaxQuantum>>, <<1, MaxQuantum>>, <<0>>, <<0, MaxQuantum>>, <<1, 0>>, <<>>}

DriverFlowLists ==
    LET good == FlowDesc(1, 1, 0, SzPktMax + 1, 0)
        near == [good EXCEPT !.delay2dst = SourceDescs[1].delay2btl - 1]
        lost == [good EXCEPT !.source = Len(SourceDescs) + 1]
        void == [good EXCEPT !.size = 0]
        more == FlowDesc(2, 2, 0, SzPktMax, LateStart)
    IN {<<good>>, <<good, more>>, <<near>>, <<more, near>>, <<lost>>, <<more, lost>>,
        <<void>>, <<more, void>>}

DriverConfigs ==
    { [sources |-> SourceDescs, flows |-> fl, bandwidth |-> bw, quanta |-> qu,
       window |-> w, dctcp_marking_threshold |-> th, dctcp_gain |-> Gain,
       dctcp_ai |-> ai, sz_pktmax |-> SzPktMax, sz_pkthdr |-> SzPktHdr,
       timeout |-> None] :
        qu \in DriverQuanta, fl \in DriverFlowLists,
        bw \in Bandwidths, w \in Windows, th \in Thresholds, ai \in AdditiveIncs }

InitDriver == \E c \in DriverConfigs : DriverRun(c)

SpecDriver == InitDriver /\ [][Next]_vars

\* The loop of Simulation::run: while should_stop is false it pops and
\* dispatches one more event.
Dispatch ==
    /\ \E ev \in BagToSet(schedule) : CanPop(ev)
    /\ nDisp' = nDisp + 1

SpecRun == Spec /\ WF_nDisp(Dispatch)

\* Simulation::run has left its loop: the records it returns.
Records ==
    LET ids == DOMAIN sources
        RECURSIVE Gather(_)
        Gather(S) == IF S = {} THEN <<>>
                     ELSE LET id == CHOOSE x \in S : \A y \in S : x <= y
                          IN sources[id].records \o Gather(S \ {id})
    IN Gather(ids)

Returned == phase = "sim" /\ aborted = "" /\ error = "" /\ should_stop

(***************************************************************************)
(* Properties of the simulation.                                           *)
(***************************************************************************)
SizeOf(id) == cfg.flows[CHOOSE k \in DOMAIN cfg.flows : cfg.flows[k].id = id].size

RecordsOf(id) == {k \in DOMAIN Records : Records[k].id = id}

HasRecord(id) == RecordsOf(id) # {}

\* the flow is still in the flow queue of its source
Held(id) == \E s \in DOMAIN sources : id \in DOMAIN sources[s].flow_queue.members

HeldFlow(id) ==
    LET s == CHOOSE x \in DOMAIN sources : id \in DOMAIN sources[x].flow_queue.members
    IN sources[s].flow_queue.members[id]

OneRecordPerFlow ==
    /\ Len(Records) = Len(cfg.flows)
    /\ \A id \in FlowIds(cfg) : Cardinality(RecordsOf(id)) = 1

\* C1: when a run without a timeout has left the event loop, the records
\* hold exactly one Record for every configured flow, none missing and
\* none duplicated.
C1_OneRecordPerFlow == Returned => OneRecordPerFlow

C3_TimeNeverRunsBackwards ==
    /\ [](\A e \in BagToSet(schedule) : cur_time <= e.time)
    /\ [][cur_time <= cur_time']_vars

\* an Ack that found its flow's tnext in the past scheduled the wake-up at
\* the current time, not before it
C3_Witness ==
    /\ phase = "sim"
    /\ cur_time > 0
    /\ lastEv.ev.cmd.kind = "RcvAck"
    /\ sources[lastEv.ev.cmd.source].tnext < cur_time
    /\ \E e \in BagToSet(schedule) :
          /\ e.cmd.kind = "TrySend"
          /\ e.cmd.version = sources[lastEv.ev.cmd.source].version
          /\ e.time = cur_time

\* C4: the dispatch of a TrySend whose version is not the current version
\* of its source sends no packet, changes no source, flow or bottleneck
\* state and schedules no event: all it does is leave the schedule.
C4_StaleTrySendIsNoop ==
    [][(nDisp' = nDisp + 1 /\ lastEv'.stale) =>
          /\ sources' = sources
          /\ btl' = btl
          /\ port' = port
          /\ workload' = workload
          /\ acked' = acked
          /\ schedule' = schedule (-) SetToBag({lastEv'.ev})]_vars

\* a stale TrySend was dispatched at a source that had a flow it could send
C4_Witness ==
    /\ phase = "sim"
    /\ lastEv.stale
    /\ LET src == sources[lastEv.ev.cmd.source]
       IN /\ lastEv.ev.cmd.version < src.version
          /\ \E id \in DOMAIN src.flow_queue.members :
                /\ ~is_win_bound(src.flow_queue.members[id])
                /\ ~is_rate_bound(src.flow_queue.members[id], cur_time)

\* C5: whichever of several events of the same time fires first, the run
\* hits no abort and returns exactly one Record for every flow.
C5_AnyFiringOrder ==
    /\ aborted = ""
    /\ Returned => \A id \in FlowIds(cfg) : Cardinality(RecordsOf(id)) = 1

(***************************************************************************)
(* Properties of the port.                                                 *)
(***************************************************************************)
Count(seq, x) == Cardinality({k \in 1..Len(seq) : seq[k] = x})

Rep(x, n) == [k \in 1..n |-> x]

\* The service order deficit round robin promises for two backlogged queues
\* that are served k0 and k1 packets per round and hold r0 and r1 packets.
RECURSIVE RoundOrder(_, _, _, _)
RoundOrder(k0, k1, r0, r1) ==
    IF r0 = 0 /\ r1 = 0 THEN <<>>
    ELSE Rep(0, Min(k0, r0)) \o Rep(1, Min(k1, r1))
            \o RoundOrder(k0, k1, r0 - Min(k0, r0), r1 - Min(k1, r1))

\* Packets the script put into sub-queue i: those served plus those waiting.
Filled(i) == Count(deqSeq, i) + Len(port.queues[i + 1].inner)

BytesServed(i) == Count(deqSeq, i) * pktSz[i + 1]

\* both sub-queues have been backlogged since the drain began
Backlogged == \A i \in 1..Len(port.queues) : ~Queue_is_empty(port.queues[i])

\* C11: DRR fairness.  While both sub-queues stay backlogged, the bytes B0
\* and B1 served from them never leave the band
\*     -s0 * q1 < B0 * q1 - B1 * q0 < q0 * q1 + s1 * q0
\* (q the quanta, s the packet sizes): the distance of B_i / (B0 + B1) from
\* q_i / (q0 + q1) is at most a constant over the bytes served, so the
\* fraction tends to quanta[i] / sum of quanta.
C11_DrrFairShare ==
    (phase = "drain" /\ Backlogged) =>
        LET q0 == port.quanta[1]
            q1 == port.quanta[2]
            d  == BytesServed(0) * q1 - BytesServed(1) * q0
        IN /\ 0 - pktSz[1] * q1 < d
           /\ d < q0 * q1 + pktSz[2] * q0

\* several rounds served under backlog with unequal quanta and unequal sizes
C11_Witness ==
    /\ phase = "drain" /\ Backlogged
    /\ port.quanta[1] # port.quanta[2]
    /\ pktSz[1] # pktSz[2]
    /\ Count(deqSeq, 0) >= 2 /\ Count(deqSeq, 1) >= 2
    /\ BytesServed(0) + BytesServed(1) >= 2 * (port.quanta[1] + port.quanta[2])

\* C7: a sub-queue that went empty has its deficit reset to zero before a
\* later dequeue credits it with a quantum.
C7_ResetBeforeCredit == ~staleCredit

\* C8: every empty sub-queue has deficit 0.
C8_EmptyQueueZeroDeficit ==
    \A i \in 1..Len(port.queues) :
        Queue_is_empty(port.queues[i]) => port.deficits[i] = 0

\* C9: pick_dequeue_index returns None iff all sub-queues are empty, and a
\* returned index names a non-empty queue whose deficit, before the head
\* packet's size was deducted, was at least that size.
C9_PickContract ==
    /\ lastPick.called =>
          /\ lastPick.res # Diverged
          /\ (lastPick.res = None) <=> lastPick.was_all_empty
    /\ awaiting # None =>
          /\ lastPick.res = awaiting
          /\ ~Queue_is_empty(port.queues[awaiting + 1])
          /\ lastPick.pre >= Queue_peek(port.queues[awaiting + 1]).size
          /\ port.deficits[awaiting + 1]
                = lastPick.pre - Queue_peek(port.queues[awaiting + 1]).size

C9_Witness ==
    /\ awaiting # None
    /\ lastPick.pre > Queue_peek(port.queues[awaiting + 1]).size
    /\ \E i \in 1..Len(port.queues) : Queue_is_empty(port.queues[i])

\* C10: with positive quanta every pick_dequeue_index call returns, within
\* the rotations the head packets' sizes allow.
C10_PickTerminates ==
    lastPick.called => (lastPick.res # Diverged /\ lastPick.iters <= lastPick.bound)

C10_Witness ==
    /\ lastPick.called /\ lastPick.res >= 0
    /\ lastPick.iters > Len(port.queues)

(***************************************************************************)
(* One flow driven by hand (src/src/flow.rs): it sends whenever it has     *)
(* bytes left and its window allows, and each packet in flight is          *)
(* acknowledged in order by an Ack that is marked or not.  As in Source,   *)
(* the flow is built by flow_arrive, it sends at its tnext, and it is      *)
(* dropped with the send of its last byte: no Ack reaches it after that.   *)
(***************************************************************************)
MaxFlowBytes == 9
FlowLinkRates == {500, 2000, 8000}
FlowWindows == {1, SzPktMax, 2 * SzPktMax, 3 * SzPktMax}
FlowGains == {AlphaDen \div 16, AlphaDen \div 2, AlphaDen}

FlowConfigs ==
    { [sources |-> << [id |-> 1, delay2btl |-> 1, link_rate |-> lr] >>,
       flows |-> << FlowDesc(1, 1, 0, sz, 0) >>,
       bandwidth |-> lr, quanta |-> <<MaxQuantum>>,
       window |-> w, dctcp_marking_threshold |-> 0,
       dctcp_gain |-> g, dctcp_ai |-> ai, sz_pktmax |-> SzPktMax,
       sz_pkthdr |-> SzPktHdr, timeout |-> None] :
        lr \in FlowLinkRates, sz \in 1..MaxFlowBytes, w \in FlowWindows,
        g \in FlowGains, ai \in AdditiveIncs }

NoAck == [marked |-> FALSE, nr_bytes |-> 0, before |-> <<>>]

InitFlow ==
    /\ cfg \in FlowConfigs
    /\ flw = Flow_new(cfg.flows[1], cfg.sources[1], 0, cfg)
    /\ fly = <<>>
    /\ nMarked = 0
    /\ lastAck = NoAck
    /\ cur_time = 0 /\ schedule = EmptyBag /\ workload = <<>>
    /\ sources = <<>> /\ btl = <<>> /\ aborted = "" /\ error = "" /\ lastEv = <<>>
    /\ nDisp = 0 /\ acked = <<>>
    /\ port = <<>> /\ lastPick = NoPick /\ awaiting = None /\ deqSeq = <<>>
    /\ nEnq = 0 /\ dirty = <<>> /\ staleCredit = FALSE
    /\ phase = "flow"
    /\ pktSz = 0

\* FlowQ::next_packet finds the flow neither rate-bound nor window-bound
FlowSend ==
    /\ phase = "flow"
    /\ bytes_left(flw) > 0
    /\ ~is_win_bound(flw)
    /\ LET np == Flow_next_packet(flw, flw.tnext, cfg)
       IN /\ flw' = np.flow
          /\ fly' = Append(fly, AckBytes(np.pkt, cfg))
    /\ UNCHANGED <<nMarked, lastAck>>
    /\ UNCHANGED <<simVars, portVars>>

\* Source::rcv_ack hands the Ack of the oldest packet in flight to the flow
FlowAck ==
    /\ phase = "flow"
    /\ fly # <<>>
    /\ bytes_left(flw) > 0
    /\ \E marked \in BOOLEAN :
          LET ack == [nr_bytes |-> Head(fly), marked |-> marked]
          IN /\ flw' = Flow_rcv_ack(flw, ack, cfg)
             /\ nMarked' = IF marked THEN nMarked + 1 ELSE nMarked
             /\ lastAck' = [marked |-> marked, nr_bytes |-> ack.nr_bytes,
                            before |-> flw]
    /\ fly' = Tail(fly)
    /\ UNCHANGED <<simVars, portVars>>

NextFlow == FlowSend \/ FlowAck

SpecFlow == InitFlow /\ [][NextFlow]_vars

(***************************************************************************)
(* run on an otherwise empty network, as tests/ideal_fct.rs sets it up:    *)
(* one source, every pair of link and bottleneck rate, one flow of every   *)
(* size up to three full packets, or a short and a long flow far apart in  *)
(* time; the window holds a whole flow and no packet is ever marked.       *)
(***************************************************************************)
FctPktMax == 16     \* sz_pktmax of these runs
FarStart == 300     \* start of the second flow: the first is long gone
FctRates == {2000, 3000, 8000}

FctFlowLists ==
    { << FlowDesc(1, 1, 0, sz, 0) >> : sz \in 1..(3 * FctPktMax) }
    \cup
    { << FlowDesc(1, 1, 0, a, 0), FlowDesc(2, 1, 0, b, FarStart) >> :
        a \in {1, FctPktMax - 1, FctPktMax + 1},
        b \in {2 * FctPktMax, 2 * FctPktMax + 1} }

FctConfigs ==
    { [sources |-> << [id |-> 1, delay2btl |-> 1, link_rate |-> lr] >>,
       flows |-> fl, bandwidth |-> bw, quanta |-> <<MaxQuantum>>,
       window |-> 3 * FctPktMax, dctcp_marking_threshold |-> TimeMax,
       dctcp_gain |-> Gain, dctcp_ai |-> ai, sz_pktmax |-> FctPktMax,
       sz_pkthdr |-> SzPktHdr, timeout |-> None] :
        lr \in FctRates, bw \in FctRates, fl \in FctFlowLists, ai \in AdditiveIncs }

InitFct == \E c \in FctConfigs : DriverRun(c)

SpecFct == InitFct /\ [][Next]_vars

\* the flows are far enough apart never to share the network
FlowsApart ==
    \A j, k \in DOMAIN cfg.flows :
        j # k => \/ cfg.flows[j].start >= cfg.flows[k].start + FarStart
                 \/ cfg.flows[k].start >= cfg.flows[j].start + FarStart

\* one source whose link is slower than the bottleneck, flows apart, the
\* window and the marking threshold above anything a flow can have in flight
EmptyNetwork ==
    /\ Len(cfg.sources) = 1
    /\ cfg.sources[1].link_rate < cfg.bandwidth
    /\ FlowsApart
    /\ \A k \in DOMAIN cfg.flows :
          /\ cfg.flows[k].size <= cfg.window
          /\ cfg.flows[k].size + cfg.sz_pkthdr * cfg.flows[k].size
                <= cfg.dctcp_marking_threshold

ShortFlow(size) == 0 < size /\ size < cfg.sz_pktmax

ManyFullPackets(size) == size >= 2 * cfg.sz_pktmax /\ size % cfg.sz_pktmax = 0

\* C14: on an otherwise empty network the record of a flow shorter than
\* one packet, and of a flow of several full packets, has fct = ideal.
C14_FctEqualsIdeal ==
    (phase = "sim" /\ error = "" /\ EmptyNetwork) =>
        \A j \in DOMAIN Records :
            (ShortFlow(Records[j].size) \/ ManyFullPackets(Records[j].size))
                => Records[j].fct = Records[j].ideal

\* a run has returned the records of a short and of a three-packet flow,
\* the second started late
C14_Witness ==
    /\ Returned
    /\ EmptyNetwork
    /\ Len(Records) = 2
    /\ ShortFlow(Records[1].size)
    /\ ManyFullPackets(Records[2].size)
    /\ Records[2].start = FarStart
    /\ Records[2].fct = Records[2].ideal

\* packets a flow of this size is sent in
NrPackets(size) == (size + cfg.sz_pktmax - 1) \div cfg.sz_pktmax

RoundTol == 3       \* nanoseconds of rounding allowed per packet

\* C15: the fct of every record is at least its ideal, up to RoundTol
\* nanoseconds for each packet of the flow, whatever the size of the flow
\* and the rates of the link and of the bottleneck.
C15_FctAtLeastIdeal ==
    (phase = "sim" /\ error = "") =>
        \A j \in DOMAIN Records :
            Records[j].fct + RoundTol * NrPackets(Records[j].size) >= Records[j].ideal

(***************************************************************************)
(* Properties of driver::run on configurations it may have to refuse.      *)
(***************************************************************************)
HasBadQuantum == \E k \in DOMAIN cfg.quanta : cfg.quanta[k] <= 0

SourceIds == {cfg.sources[k].id : k \in DOMAIN cfg.sources}

SourceOf(id) == cfg.sources[CHOOSE k \in DOMAIN cfg.sources : cfg.sources[k].id = id]

HasNearFlow ==
    \E k \in DOMAIN cfg.flows :
        /\ cfg.flows[k].source \in SourceIds
        /\ cfg.flows[k].delay2dst < SourceOf(cfg.flows[k].source).delay2btl

HasLostFlow == \E k \in DOMAIN cfg.flows : cfg.flows[k].source \notin SourceIds

\* C12: whenever at least one quantum of the configuration is not strictly
\* positive, run has returned InvalidQuanta: no event was or will be
\* dispatched (nothing is scheduled), nothing aborted, and there is no
\* record.
C12_InvalidQuantaRejected ==
    (phase = "sim" /\ HasBadQuantum) =>
        /\ error = "InvalidQuanta"
        /\ aborted = ""
        /\ nDisp = 0
        /\ schedule = EmptyBag
        /\ Records = <<>>

\* a list with one positive and one zero quantum, and flows to run, was refused
C12_Witness ==
    /\ phase = "sim"
    /\ error = "InvalidQuanta"
    /\ Len(cfg.quanta) = 2
    /\ cfg.quanta[1] > 0
    /\ cfg.quanta[2] = 0
    /\ cfg.flows # <<>>
    /\ nDisp = 0

\* C13: when the list of quanta is empty, when a flow's delay2dst is less
\* than the delay2btl of its source, or when a flow names a source that is
\* not configured, run has returned an error: it neither simulates nor
\* aborts.
C13_MalformedConfigRejected ==
    (phase = "sim" /\ (cfg.quanta = <<>> \/ HasNearFlow \/ HasLostFlow)) =>
        /\ error # ""
        /\ aborted = ""
        /\ nDisp = 0

HasVoidFlow == \E k \in DOMAIN cfg.flows : cfg.flows[k].size = 0

\* C22: a configuration with a flow of zero bytes is either refused by run
\* with an error, or it runs without aborting and, once run has returned,
\* that flow has a record with fct = ideal = src2btl + btl2dst (its
\* delay2dst).
C22_ZeroByteFlow ==
    (phase = "sim" /\ HasVoidFlow /\ error = "") =>
        /\ aborted = ""
        /\ Returned =>
              \A k \in DOMAIN cfg.flows :
                  cfg.flows[k].size = 0 =>
                      \E j \in DOMAIN Records :
                          /\ Records[j].id = cfg.flows[k].id
                          /\ Records[j].fct = cfg.flows[k].delay2dst
                          /\ Records[j].ideal = cfg.flows[k].delay2dst

(***************************************************************************)
(* Properties of the flows (src/src/flow.rs).                              *)
(***************************************************************************)
\* the flows the sources hold
MemberFlows ==
    UNION { {sources[sid].flow_queue.members[id] :
                id \in DOMAIN sources[sid].flow_queue.members} :
            sid \in DOMAIN sources }

\* C16: in every state reached by a run, every flow has
\* 0 <= snd_una <= snd_nxt <= size.
C16_SequenceNumbersOrdered ==
    phase = "sim" =>
        \A f \in MemberFlows :
            /\ 0 <= f.snd_una
            /\ f.snd_una <= f.snd_nxt
            /\ f.snd_nxt <= f.size

\* a flow with bytes acknowledged, bytes in flight and bytes still to send
C16_Witness ==
    /\ phase = "sim"
    /\ \E f \in MemberFlows :
          /\ 0 < f.snd_una
          /\ f.snd_una < f.snd_nxt
          /\ f.snd_nxt < f.size

\* C17: the rate of the flow stays between its min_rate and its max_rate,
\* whatever the link rate of its source and whatever Acks it receives.
C17_RateWithinBounds ==
    phase = "flow" =>
        /\ flw.min_rate <= flw.rate
        /\ flw.rate <= flw.max_rate

\* C18: the alpha of every flow stays in [0, 1], whatever Acks it receives.
C18_AlphaInUnitInterval ==
    phase = "sim" =>
        \A f \in MemberFlows :
            /\ 0 <= f.alpha
            /\ f.alpha <= AlphaDen

\* C19: as long as no Ack of the flow was marked, no Ack lowers its rate.
C19_UnmarkedNeverSlows ==
    (phase = "flow" /\ nMarked = 0 /\ lastAck # NoAck) =>
        flw.rate >= lastAck.before.rate

\* an unmarked Ack closed a batch, not the first one, of a flow that never
\* saw a mark: the additive increase was applied
C19_Witness ==
    /\ phase = "flow"
    /\ nMarked = 0
    /\ lastAck # NoAck
    /\ lastAck.before.last_update_seq > 0
    /\ flw.last_update_seq > lastAck.before.last_update_seq
    /\ flw.ca_state = "Zero"

\* C20: at most one reduction per window.  A marked Ack that reduces
\* leaves the flow Reducing (One) with high_seq = snd_nxt; an Ack that
\* finds the flow Reducing and does not move snd_una beyond high_seq
\* leaves rate, state and high_seq alone, marked or not; so a marked Ack
\* lowers the rate only if it found the flow Open (Zero) or moved snd_una
\* beyond high_seq.
C20_OneReductionPerWindow ==
    (phase = "flow" /\ lastAck # NoAck) =>
        LET b == lastAck.before
            held == b.ca_state = "One" /\ flw.snd_una <= b.high_seq
        IN /\ held => /\ flw.rate = b.rate
                       /\ flw.ca_state = "One"
                       /\ flw.high_seq = b.high_seq
           /\ (~held /\ lastAck.marked) => /\ flw.ca_state = "One"
                                           /\ flw.high_seq = b.snd_nxt
           /\ (lastAck.marked /\ flw.rate < b.rate) => ~held

\* a second mark inside the window of a reduction that did lower the rate
C20_Witness ==
    /\ phase = "flow"
    /\ lastAck # NoAck
    /\ lastAck.marked
    /\ lastAck.before.ca_state = "One"
    /\ flw.snd_una <= lastAck.before.high_seq
    /\ flw.rate < flw.max_rate
    /\ flw.rate = lastAck.before.rate

(***************************************************************************)
(* Properties of the sources (src/src/entities/source.rs).                 *)
(***************************************************************************)
\* a TrySend of the source's current version is waiting in the schedule
TrySendPending(sid) ==
    \E e \in BagToSet(schedule) :
        /\ e.cmd.kind = "TrySend"
        /\ e.cmd.source = sid
        /\ e.cmd.version = sources[sid].version

\* the source waits for an Ack or an arrival
Dormant(sid) == sources[sid].tnext = TimeMax /\ ~TrySendPending(sid)

\* this step dispatched an event of this kind
Dispatched(kind) == nDisp' = nDisp + 1 /\ lastEv'.ev.cmd.kind = kind

\* this step sent a packet: a Receive was scheduled
SendsPacket ==
    \E e \in BagToSet(schedule') :
        /\ e.cmd.kind = "Receive"
        /\ CopiesIn(e, schedule') > CopiesIn(e, schedule)

HeldBy(sid, id) == id \in DOMAIN sources[sid].flow_queue.members

\* a single flow whose window is exactly one packet
OnePacketWindow ==
    /\ phase = "sim"
    /\ Len(cfg.flows) = 1
    /\ cfg.window = cfg.sz_pktmax

\* C21: with one flow and a window of exactly one packet: a TrySend that
\* finds the flow window-bound leaves the source dormant (tnext = +infinity,
\* no TrySend of the current version pending); no packet is sent while a
\* sent byte is not yet acknowledged; the Ack delivered to the dormant
\* source schedules a TrySend of the current version; and that TrySend
\* sends the flow's next packet.
C21_WindowBoundRecovery ==
    [][OnePacketWindow =>
        LET sid == cfg.flows[1].source
            id == cfg.flows[1].id
            held == HeldBy(sid, id)
            f == sources[sid].flow_queue.members[id]
        IN /\ (Dispatched("TrySend") /\ ~lastEv'.stale /\ ~SendsPacket)
                 => Dormant(sid)'
           /\ (SendsPacket /\ held) => f.snd_nxt = acked[id].delivered
           /\ (Dispatched("RcvAck") /\ held /\ Dormant(sid))
                 => TrySendPending(sid)'
           /\ (Dispatched("TrySend") /\ ~lastEv'.stale /\ held
                 /\ f.snd_nxt = acked[id].delivered)
                 => SendsPacket]_vars

\* the TrySend that the first Ack scheduled has sent the second packet of
\* the flow, and the source waits again
C21_Witness ==
    /\ OnePacketWindow
    /\ lastEv.ev.cmd.kind = "TrySend"
    /\ ~lastEv.stale
    /\ LET sid == cfg.flows[1].source
           id == cfg.flows[1].id
       IN /\ acked[id].delivered = cfg.sz_pktmax
          /\ sources[sid].tnext = cur_time + length(sources[sid].link_rate,
                                                   cfg.flows[1].size - cfg.sz_pktmax
                                                     + cfg.sz_pkthdr)
          /\ \E e \in BagToSet(schedule) :
                /\ e.cmd.kind = "Receive"
                /\ e.cmd.pkt.flow_id = id
                /\ e.cmd.pkt.size = cfg.flows[1].size - cfg.sz_pktmax + cfg.sz_pkthdr

\* C23: a flow whose window is smaller than one packet never has more than
\* its window in flight, so that it sends again only after an Ack has freed
\* window, and it still completes: when run has returned it has its record.
C23_SmallWindowCompletes ==
    (phase = "sim" /\ cfg.window < cfg.sz_pktmax) =>
        /\ \A f \in MemberFlows : on_the_fly(f) <= cfg.window
        /\ Returned => \A id \in FlowIds(cfg) : HasRecord(id)


\* the flow of this source as try_send finds it: the member of the flow
\* queue, or the flow that the FlowArrive being dispatched has just added
FlowBeforeSend(sid, id) ==
    IF HeldBy(sid, id)
    THEN sources[sid].flow_queue.members[id]
    ELSE Flow_new(lastEv'.ev.cmd.desc, sources[sid], cur_time', cfg)

\* C25: a packet of a flow is produced at time now only if, immediately
\* before, the flow has usable window (it is not window-bound) and its
\* tnext is not later than now, whichever handler made the source try to
\* send (TrySend, FlowArrive, or the TrySend that rcv_ack scheduled).
C25_SendOnlyWhenEligible ==
    [][\A e \in BagToSet(schedule') :
          (e.cmd.kind = "Receive" /\ CopiesIn(e, schedule') > CopiesIn(e, schedule))
              => LET sid == e.cmd.pkt.source_id
                     id == e.cmd.pkt.flow_id
                     f == FlowBeforeSend(sid, id)
                 IN /\ lastEv'.ev.cmd.kind \in {"TrySend", "FlowArrive"}
                    /\ HeldBy(sid, id) \/ lastEv'.ev.cmd.desc.id = id
                    /\ usable_window(f) > 0
                    /\ f.tnext <= cur_time'
                    /\ bytes_left(f) > 0]_vars

\* a flow that has slowed down (its rate is below the link rate) has sent a
\* packet in the TrySend just dispatched and has window left: the source's
\* next TrySend comes before the flow's tnext and must not send for it
C25_Witness ==
    /\ phase = "sim"
    /\ aborted = ""
    /\ lastEv.ev.cmd.kind = "TrySend"
    /\ ~lastEv.stale
    /\ \E e \in BagToSet(schedule) :
          /\ e.cmd.kind = "Receive"
          /\ e.time = cur_time + sources[e.cmd.pkt.source_id].delay2btl
                        + length(sources[e.cmd.pkt.source_id].link_rate, e.cmd.pkt.size)
          /\ HeldBy(e.cmd.pkt.source_id, e.cmd.pkt.flow_id)
          /\ LET f == sources[e.cmd.pkt.source_id].flow_queue.members[e.cmd.pkt.flow_id]
             IN /\ f.rate < f.max_rate
                /\ f.snd_una > 0
                /\ f.tnext = cur_time + length(f.rate, e.cmd.pkt.size)
                /\ f.tnext > sources[f.source].tnext
                /\ usable_window(f) > 0


(***************************************************************************)
(* Paced sending: windows of several packets and two sources that together *)
(* overrun a marking bottleneck, so that flows slow down below the link    *)
(* rate and a source finds flows that have window but must wait for their  *)
(* tnext.                                                                  *)
(***************************************************************************)
MaxPaceSize == 16    \* payload bytes of the largest paced flow
PaceWindows == {4 * SzPktMax, 6 * SzPktMax}
PaceGains == {AlphaDen \div 2, AlphaDen}

PaceFlowLists ==
    { << FlowDesc(1, 1, 0, sz[1], 0), FlowDesc(2, 2, 0, sz[2], 0) >> :
        sz \in ((MaxPaceSize - 1)..MaxPaceSize) \X ((MaxPaceSize - 1)..MaxPaceSize) }

PaceConfigs ==
    { [sources |-> SourceDescs, flows |-> fl, bandwidth |-> 16000,
       quanta |-> <<MaxQuantum>>, window |-> w, dctcp_marking_threshold |-> 0,
       dctcp_gain |-> g, dctcp_ai |-> ai, sz_pktmax |-> SzPktMax,
       sz_pkthdr |-> SzPktHdr, timeout |-> None] :
        fl \in PaceFlowLists, w \in PaceWindows, g \in PaceGains,
        ai \in AdditiveIncs }

InitPace == \E c \in PaceConfigs : DriverRun(c)

SpecPace == InitPace /\ [][Next]_vars


\* the flow queue of this source as try_send finds it in this step: with
\* the flow added, when the step dispatches a FlowArrive for the source
QueueBeforeSend(sid) ==
    IF lastEv'.ev.cmd.kind = "FlowArrive" /\ lastEv'.ev.cmd.source = sid
    THEN FlowQ_add_flow(sources[sid].flow_queue,
                        Flow_new(lastEv'.ev.cmd.desc, sources[sid], cur_time', cfg))
    ELSE sources[sid].flow_queue

\* the flow whose turn it is: the one at slot rr_next of the round
InTurn(fq) == fq.order[(fq.rr_next % Len(fq.order)) + 1]

\* the flow after this one in the cyclic order of insertion
Follower(fq, id) ==
    LET k == CHOOSE j \in DOMAIN fq.order : fq.order[j] = id
    IN fq.order[(k % Len(fq.order)) + 1]

AllCanSend(fq, now) ==
    \A id \in DOMAIN fq.members :
        ~is_rate_bound(fq.members[id], now) /\ ~is_win_bound(fq.members[id])

\* C26: when every flow of the source is neither rate- nor window-bound as
\* try_send examines them, the packet comes from the flow whose turn it is,
\* and after the send the turn is with the flow that followed the sender in
\* the cyclic insertion order, also when the sender was drained and removed
\* by this transmission; so that successive packets come from the flows in
\* cyclic order.
C26_RoundRobinOrder ==
    [][\A e \in BagToSet(schedule') :
          (/\ e.cmd.kind = "Receive"
           /\ CopiesIn(e, schedule') > CopiesIn(e, schedule)
           /\ AllCanSend(QueueBeforeSend(e.cmd.pkt.source_id), cur_time'))
              => LET sid == e.cmd.pkt.source_id
                     id == e.cmd.pkt.flow_id
                     fq == QueueBeforeSend(sid)
                     after == sources'[sid].flow_queue
                 IN /\ id = InTurn(fq)
                    /\ Len(fq.order) >= 2
                          => /\ after.order # <<>>
                             /\ InTurn(after) = Follower(fq, id)]_vars


(***************************************************************************)
(* Properties of the bottleneck (src/src/entities/bottleneck.rs).          *)
(***************************************************************************)
\* the bytes queued in the port, over all sub-queues
RECURSIVE PortBytes(_, _)
PortBytes(p, n) ==
    IF n = 0 THEN 0 ELSE p.queues[n].qsize + PortBytes(p, n - 1)

\* this step scheduled nothing: the schedule only lost the event popped
SchedulesNothing == schedule' = schedule (-) SetToBag({lastEv'.ev})

\* this step scheduled a Bottleneck.Step at this time
SchedulesStepAt(t) ==
    LET e == [time |-> t, cmd |-> BottleneckStepCmd]
    IN CopiesIn(e, schedule') > CopiesIn(e, schedule (-) SetToBag({lastEv'.ev}))

\* C27: the bottleneck starts Blocked; a Receive while Blocked enqueues the
\* packet, sets Running and services a packet at the same instant (a Step is
\* scheduled one service time later); a Receive while Running only enqueues
\* (status unchanged, nothing scheduled); a Step that finds every sub-queue
\* empty sets Blocked and schedules nothing; and no Step is dispatched while
\* the bottleneck is Blocked.
C27_BottleneckStateMachine ==
    [][(phase = "sim" /\ error = "") =>
        LET pkt == lastEv'.ev.cmd.pkt
            n == Len(port.queues)
        IN /\ nDisp = 0 => btl.status = "Blocked"
           /\ (Dispatched("Receive") /\ btl.status = "Blocked") =>
                 /\ btl'.status = "Running"
                 /\ PortBytes(port, n) = 0
                 /\ PortBytes(port', n) = 0
                 /\ btl'.qsize = 0
                 /\ SchedulesStepAt(cur_time' + length(btl.bandwidth, pkt.size))
                 /\ aborted' = ""
           /\ (Dispatched("Receive") /\ btl.status = "Running") =>
                 /\ btl'.status = "Running"
                 /\ port' = Port_enqueue(port, pkt.qindex, pkt)
                 /\ btl'.qsize = btl.qsize + pkt.size
                 /\ SchedulesNothing
           /\ (Dispatched("BottleneckStep") /\ PortBytes(port, n) = 0) =>
                 /\ btl'.status = "Blocked"
                 /\ SchedulesNothing
           /\ Dispatched("BottleneckStep") => btl.status = "Running"]_vars

\* a Step has found the port empty and blocked the bottleneck, and a marked
\* Ack is under way: a packet had arrived while the bottleneck was Running
C27_Witness ==
    /\ phase = "sim"
    /\ aborted = ""
    /\ lastEv.ev.cmd.kind = "BottleneckStep"
    /\ btl.status = "Blocked"
    /\ \E e \in BagToSet(schedule) : e.cmd.kind = "RcvAck" /\ e.cmd.marked


\* the packet that the step being taken dequeues, if it dequeues one: the
\* packet received by a Blocked bottleneck, or the head of the sub-queue
\* that a Step shortens
Dequeues(pkt) ==
    \/ /\ Dispatched("Receive")
       /\ btl.status = "Blocked"
       /\ pkt = lastEv'.ev.cmd.pkt
    \/ /\ Dispatched("BottleneckStep")
       /\ \E i \in DOMAIN port.queues :
             /\ port.queues[i].inner # <<>>
             /\ port'.queues[i].inner = Tail(port.queues[i].inner)
             /\ pkt = Head(port.queues[i].inner)

PacketsQueued ==
    UNION {{port.queues[i].inner[k] : k \in DOMAIN port.queues[i].inner} :
              i \in DOMAIN port.queues}

\* C28: for each packet dequeued at now, with service = length(pkt.size,
\* bandwidth), the step schedules exactly one Bottleneck.Step at
\* now + service, exactly one RcvAck for the packet's source and flow at
\* now + service + btl2dst + (src2btl + btl2dst) that acknowledges
\* pkt.size - sz_pkthdr bytes, one FlowDepart at now + service + btl2dst if
\* and only if the packet is the last of its flow, and nothing else.
C28_EventsOfService ==
    [][(phase = "sim" /\ error = "") =>
        \A pkt \in PacketsQueued \cup {lastEv'.ev.cmd.pkt} :
           Dequeues(pkt) =>
              LET now == cur_time'
                  service == length(cfg.bandwidth, pkt.size)
                  step == [time |-> now + service, cmd |-> BottleneckStepCmd]
                  ack(m) == [time |-> now + service + pkt.btl2dst
                                        + (pkt.src2btl + pkt.btl2dst),
                             cmd |-> RcvAckCmd(pkt.source_id, pkt.flow_id,
                                               pkt.size - cfg.sz_pkthdr, m)]
                  depart == [time |-> now + service + pkt.btl2dst,
                             cmd |-> FlowDepartCmd(pkt.source_id, pkt.flow_id)]
                  rest == schedule (-) SetToBag({lastEv'.ev})
              IN \E m \in BOOLEAN :
                    schedule' = rest (+) SetToBag({step}) (+) SetToBag({ack(m)})
                                  (+) (IF pkt.is_last THEN SetToBag({depart})
                                       ELSE EmptyBag)]_vars

\* a Step has just dequeued the last packet of a flow from a queue that held
\* another packet: its Step, its Ack and the FlowDepart are scheduled
C28_Witness ==
    /\ phase = "sim"
    /\ aborted = ""
    /\ lastEv.ev.cmd.kind = "BottleneckStep"
    /\ btl.qsize > 0
    /\ \E d, a \in BagToSet(schedule) :
          /\ d.cmd.kind = "FlowDepart"
          /\ a.cmd.kind = "RcvAck"
          /\ a.cmd.flow = d.cmd.flow
          /\ a.cmd.marked
          /\ d.time > cur_time
          /\ a.time = d.time + sources[d.cmd.source].delay2btl
                        + (Delay2Dst - sources[d.cmd.source].delay2btl)
          /\ BagIn([time |-> d.time - (Delay2Dst - sources[d.cmd.source].delay2btl),
                    cmd |-> BottleneckStepCmd], schedule)


(***************************************************************************)
(* Marking with two sub-queues: a short flow in sub-queue 0 and a longer   *)
(* one of another source in sub-queue 1, a window of several packets and a *)
(* marking threshold of one full packet, so that the port holds more than  *)
(* the threshold while one of its sub-queues does not.                     *)
(***************************************************************************)
MaxMarkSize == 8     \* payload bytes of the longer flow
MarkQuanta == {<<1, MaxQuantum>>, <<MaxQuantum, MaxQuantum>>}
MarkThresholds == {SzPktMax + SzPktHdr}
MarkFlowLists ==
    { << FlowDesc(1, 1, 0, a, st), FlowDesc(2, 2, 1, b, 0) >> :
        a \in 1..(2 * SzPktMax), b \in (MaxMarkSize - 1)..MaxMarkSize,
        st \in {0, LateStart} }

MarkConfigs ==
    { [sources |-> SourceDescs, flows |-> fl, bandwidth |-> 2000,
       quanta |-> qu, window |-> 4 * SzPktMax, dctcp_marking_threshold |-> th,
       dctcp_gain |-> Gain, dctcp_ai |-> ai, sz_pktmax |-> SzPktMax,
       sz_pkthdr |-> SzPktHdr, timeout |-> None] :
        fl \in MarkFlowLists, qu \in MarkQuanta, th \in MarkThresholds,
        ai \in AdditiveIncs }

InitMark == \E c \in MarkConfigs : DriverRun(c)

SpecMark == InitMark /\ [][Next]_vars

\* C29: the Ack of a packet dequeued from a sub-queue is marked if and only
\* if the bytes queued in that same sub-queue, not in the whole port, exceed
\* the marking threshold at the moment of the dequeue.  Whether that moment
\* counts the packet itself or not: the Ack is marked if the sub-queue holds
\* more than the threshold without the packet, and only if it held more
\* than the threshold with it.
C29_MarkBySubQueue ==
    [][(phase = "sim" /\ error = "") =>
        \A i \in DOMAIN port.queues :
           (/\ Dispatched("BottleneckStep")
            /\ port.queues[i].inner # <<>>
            /\ port'.queues[i].inner = Tail(port.queues[i].inner))
              => \A a \in BagToSet(schedule') :
                    (/\ a.cmd.kind = "RcvAck"
                     /\ CopiesIn(a, schedule') > CopiesIn(a, schedule))
                       => /\ port'.queues[i].qsize > cfg.dctcp_marking_threshold
                                => a.cmd.marked
                          /\ a.cmd.marked
                                => port.queues[i].qsize > cfg.dctcp_marking_threshold]_vars


(***************************************************************************)
(* Arrivals: three one-packet flows whose starts are listed in every       *)
(* order, on one source or on two.                                         *)
(***************************************************************************)
ArriveStarts == {0, LateStart, 2 * LateStart}
ArriveFlowLists ==
    { << FlowDesc(1, 1, 0, 1, st[1]), FlowDesc(2, src, 0, SzPktMax, st[2]),
         FlowDesc(3, 1, 0, 1, st[3]) >> :
        st \in ArriveStarts \X ArriveStarts \X ArriveStarts, src \in {1, 2} }

ArriveConfigs ==
    { [sources |-> SourceDescs, flows |-> fl, bandwidth |-> bw,
       quanta |-> <<MaxQuantum>>, window |-> SzPktMax,
       dctcp_marking_threshold |-> 0, dctcp_gain |-> Gain, dctcp_ai |-> ai,
       sz_pktmax |-> SzPktMax, sz_pkthdr |-> SzPktHdr, timeout |-> None] :
        fl \in ArriveFlowLists, bw \in Bandwidths, ai \in AdditiveIncs }

InitArrive == \E c \in ArriveConfigs : DriverRun(c)

SpecArrive == InitArrive /\ [][Next]_vars

\* the flow has arrived at its source: the source keeps its FlowInfo, or
\* has already written its record
Arrived(d) ==
    \/ d.id \in DOMAIN sources[d.source].flow_info
    \/ HasRecord(d.id)

\* where the flow is on its way to its source: still in the workload, under
\* way as a FlowArrive event, or arrived
Waiting(d) == Cardinality({k \in DOMAIN workload : workload[k] = d})

UnderWay(d) ==
    LET e == [time |-> d.start, cmd |-> FlowArriveCmd(d.source, d)]
    IN CopiesIn(e, schedule)

ArrivalsPending ==
    \E e \in BagToSet(schedule) : e.cmd.kind = "FlowArrive"

StepPending ==
    \E e \in BagToSet(schedule) : e.cmd.kind = "WorkloadStep"

\* C30: whatever the order of the flow list, a FlowArrive is dispatched
\* exactly once for every flow, at the flow's start time and to the source
\* that owns it (a flow is in the workload, or under way as one FlowArrive
\* due at its start, or arrived, never two of these, and it has arrived
\* when run returns); arrivals come in non-decreasing order of start; and
\* once the last flow has been popped no Workload.Step is scheduled.
C30_ArrivalsInStartOrder ==
    /\ [](phase = "sim" /\ error = "" =>
            /\ aborted = ""
            /\ \A k \in DOMAIN cfg.flows :
                  LET d == cfg.flows[k]
                  IN /\ Waiting(d) + UnderWay(d) + (IF Arrived(d) THEN 1 ELSE 0) = 1
                     /\ Returned => Arrived(d)
            /\ \A e \in BagToSet(schedule) :
                  e.cmd.kind = "FlowArrive" =>
                      \E k \in DOMAIN cfg.flows :
                          e = [time |-> cfg.flows[k].start,
                               cmd |-> FlowArriveCmd(cfg.flows[k].source, cfg.flows[k])]
            /\ workload = <<>> => ~StepPending)
    /\ [][(phase = "sim" /\ Dispatched("FlowArrive")) =>
            LET d == lastEv'.ev.cmd.desc
            IN /\ cur_time' = d.start
               /\ ~Arrived(d)
               /\ d.id \in DOMAIN sources'[d.source].flow_info
               /\ \A k \in DOMAIN cfg.flows :
                     Arrived(cfg.flows[k]) => cfg.flows[k].start <= d.start]_vars

\* the flow listed first starts last and is the last to arrive, after the
\* two listed behind it, the second of which starts before the first
C30_Witness ==
    /\ phase = "sim"
    /\ aborted = ""
    /\ Len(cfg.flows) = 3
    /\ cfg.flows[1].start > cfg.flows[2].start
    /\ cfg.flows[2].start > cfg.flows[3].start
    /\ lastEv.ev.cmd.kind = "FlowArrive"
    /\ lastEv.ev.cmd.desc = cfg.flows[1]
    /\ cur_time = cfg.flows[1].start
    /\ \A k \in DOMAIN cfg.flows : Arrived(cfg.flows[k])
    /\ ~StepPending


(***************************************************************************)
(* Runs with a timeout: the two-source runs of MarkConfigs, cut off before *)
(* the first packet leaves, while packets are queued, and near the end.    *)
(***************************************************************************)
Timeouts == {0, 5, 17, 40}
TimeoutConfigs ==
    { [c EXCEPT !.timeout = t] : c \in MarkConfigs, t \in Timeouts }

InitTimeout == \E c \in TimeoutConfigs : DriverRun(c)

SpecTimeout == InitTimeout /\ [][Next]_vars

\* the configured timeout, Time::MAX when there is none
TimeoutOr == IF cfg.timeout = None THEN TimeMax ELSE cfg.timeout

\* C31: with a timeout T the loop stops as soon as cur_time > T, even with
\* events left in the schedule, and otherwise it keeps dispatching until
\* the schedule is empty: an event is dispatched only while cur_time <= T,
\* so that at most one event later than T is ever dispatched (the one that
\* takes the clock past T), and while cur_time <= T and the schedule is not
\* empty the event of the least time can be popped.
C31_TimeoutStopsTheLoop ==
    /\ [][(phase = "sim" /\ nDisp' # nDisp) =>
            /\ cur_time <= TimeoutOr
            /\ schedule # EmptyBag
            /\ cur_time' > TimeoutOr => lastEv'.ev.time > TimeoutOr]_vars
    /\ []((phase = "sim" /\ error = "" /\ aborted = ""
             /\ cur_time <= TimeoutOr /\ schedule # EmptyBag)
            => \E ev \in BagToSet(schedule) : CanPop(ev))

\* the loop has stopped on the timeout with events left, one event later
\* than the timeout having been dispatched
C31_Witness ==
    /\ phase = "sim"
    /\ aborted = ""
    /\ cfg.timeout # None
    /\ cur_time > cfg.timeout
    /\ lastEv.ev.time = cur_time
    /\ schedule # EmptyBag
    /\ \E e \in BagToSet(schedule) : e.time = cur_time


\* C32: an RcvAck for a flow that is not, or no longer, in the flow queue of
\* its source is dropped: the source (version, tnext, earliest_tnext, its
\* flows, its records) is as before, as is every other source, and no event
\* is scheduled.
C32_AckOfAbsentFlowDropped ==
    [][(phase = "sim" /\ Dispatched("RcvAck")
          /\ ~HeldBy(lastEv'.ev.cmd.source, lastEv'.ev.cmd.flow))
          => /\ sources' = sources
             /\ SchedulesNothing
             /\ aborted' = ""]_vars

\* the Ack of the last packet of a flow has been dispatched after the flow
\* was drained and removed: its bytes were delivered and not applied, and
\* the source still holds another flow
C32_Witness ==
    /\ phase = "sim"
    /\ aborted = ""
    /\ lastEv.ev.cmd.kind = "RcvAck"
    /\ ~HeldBy(lastEv.ev.cmd.source, lastEv.ev.cmd.flow)
    /\ acked[lastEv.ev.cmd.flow].applied < acked[lastEv.ev.cmd.flow].delivered
    /\ sources[lastEv.ev.cmd.source].flow_queue.order # <<>>


\* this step scheduled exactly this one event
SchedulesOnly(e) ==
    schedule' = (schedule (-) SetToBag({lastEv'.ev})) (+) SetToBag({e})

\* What an RcvAck does to its source.  The flow after the Ack is not
\* window-bound and flow.tnext < source.tnext: the version goes up by one,
\* tnext becomes max(earliest_tnext, flow.tnext) and exactly one TrySend of
\* the new version is scheduled, at that time, or (clamped) now when that
\* time has passed.  Otherwise version and tnext stay and nothing is
\* scheduled.
AckEffect(clamped) ==
    (phase = "sim" /\ Dispatched("RcvAck")) =>
        LET sid == lastEv'.ev.cmd.source
            id == lastEv'.ev.cmd.flow
            src == sources[sid]
            after == sources'[sid]
            wakes == /\ HeldBy(sid, id)
                     /\ usable_window(after.flow_queue.members[id]) > 0
                     /\ after.flow_queue.members[id].tnext < src.tnext
            at == IF src.earliest_tnext >= after.flow_queue.members[id].tnext
                  THEN src.earliest_tnext
                  ELSE after.flow_queue.members[id].tnext
            due == IF clamped /\ at < cur_time' THEN cur_time' ELSE at
        IN IF wakes
           THEN /\ after.version = src.version + 1
                /\ after.tnext = at
                /\ SchedulesOnly([time |-> due, cmd |-> TrySendCmd(sid, after.version)])
           ELSE /\ after.version = src.version
                /\ after.tnext = src.tnext
                /\ SchedulesNothing

\* C33 as claimed: when rcv_ack leaves the acknowledged flow not
\* window-bound with flow.tnext < source.tnext, the source raises its
\* version by one, sets its tnext to max(earliest_tnext, flow.tnext) and
\* schedules exactly one TrySend of the new version at that time; in every
\* other case the Ack leaves version and tnext as they were and schedules
\* nothing.
C33_AckWakesSourceAtTnext == [][AckEffect(FALSE)]_vars

\* C33 as amended: the same, with the TrySend due at that time or now,
\* whichever is later (source.tnext itself may be set to a time that has
\* passed).
C33_AckWakesSource == [][AckEffect(TRUE)]_vars

\* an Ack has woken a dormant source whose flow could have sent earlier:
\* source.tnext is set to a time that has passed and the TrySend of the new
\* version is due now
C33_Witness ==
    /\ phase = "sim"
    /\ aborted = ""
    /\ lastEv.ev.cmd.kind = "RcvAck"
    /\ HeldBy(lastEv.ev.cmd.source, lastEv.ev.cmd.flow)
    /\ LET src == sources[lastEv.ev.cmd.source]
       IN /\ src.tnext < cur_time
          /\ src.version >= 2
          /\ BagIn([time |-> cur_time, cmd |-> TrySendCmd(src.id, src.version)],
                   schedule)


\* C34: flow_arrive at now inserts the new flow (tnext = now, rate =
\* max_rate = link rate); if the source is idle, earliest_tnext <= now <
\* source.tnext, it raises the version by one and tries to send with the
\* new version at now (with the new flow free to send, a packet leaves and
\* the TrySend of the new version is due one serialization time later);
\* otherwise version, source.tnext and the wake-up already scheduled stay
\* as they are and nothing is scheduled.
C34_FlowArrive ==
    [][(phase = "sim" /\ Dispatched("FlowArrive") /\ aborted' = "") =>
        LET d == lastEv'.ev.cmd.desc
            now == cur_time'
            src == sources[d.source]
            after == sources'[d.source]
            idle == src.earliest_tnext <= now /\ now < src.tnext
        IN /\ d.id \in DOMAIN after.flow_info
           /\ IF idle
              THEN /\ after.version = src.version + 1
                   /\ \E e \in BagToSet(schedule') :
                         /\ e.cmd.kind = "Receive"
                         /\ e.cmd.pkt.source_id = d.source
                         /\ e.time = now + src.delay2btl
                                       + length(src.link_rate, e.cmd.pkt.size)
                         /\ after.tnext = now + length(src.link_rate, e.cmd.pkt.size)
                         /\ after.earliest_tnext = after.tnext
                         /\ schedule' = (schedule (-) SetToBag({lastEv'.ev}))
                                          (+) SetToBag({e})
                                          (+) SetToBag({[time |-> after.tnext,
                                                         cmd |-> TrySendCmd(d.source,
                                                                            after.version)]})
              ELSE /\ after.version = src.version
                   /\ after.tnext = src.tnext
                   /\ after.earliest_tnext = src.earliest_tnext
                   /\ after.flow_queue.order = Append(src.flow_queue.order, d.id)
                   /\ after.flow_queue.rr_next = src.flow_queue.rr_next
                   /\ LET f == after.flow_queue.members[d.id]
                      IN /\ f.tnext = now
                         /\ f.rate = src.link_rate
                         /\ f.max_rate = src.link_rate
                         /\ f.snd_nxt = 0
                         /\ f.size = d.size
                   /\ \A id \in DOMAIN src.flow_queue.members :
                         after.flow_queue.members[id] = src.flow_queue.members[id]
                   /\ SchedulesNothing]_vars

\* a flow has arrived, later than time 0, at an idle source whose version
\* had been raised before: the arrival raised it again and sent a packet
\* of the new flow
C34_Witness ==
    /\ phase = "sim"
    /\ aborted = ""
    /\ lastEv.ev.cmd.kind = "FlowArrive"
    /\ cur_time > 0
    /\ LET d == lastEv.ev.cmd.desc
           src == sources[d.source]
       IN /\ src.version >= 2
          /\ src.tnext > cur_time
          /\ src.earliest_tnext = src.tnext
          /\ \E e \in BagToSet(schedule) :
                /\ e.cmd.kind = "Receive"
                /\ e.cmd.pkt.flow_id = d.id
                /\ e.time = src.tnext + src.delay2btl


\* a flow of this source has bytes left and is not window-bound
CouldSend(sid) ==
    \E id \in DOMAIN sources[sid].flow_queue.members :
        LET f == sources[sid].flow_queue.members[id]
        IN bytes_left(f) > 0 /\ ~is_win_bound(f)

\* C35: no wake-up is lost: between dispatches, a source that holds a flow
\* with bytes left that is not window-bound has a TrySend of its current
\* version pending in the schedule, and is therefore not dormant with
\* tnext = +infinity.
C35_NoLostWakeup ==
    (phase = "sim" /\ error = "" /\ aborted = "") =>
        \A sid \in DOMAIN sources :
            CouldSend(sid) => (TrySendPending(sid) /\ sources[sid].tnext # TimeMax)


\* a TrySend has found the flows of its source rate-bound, one of them with
\* window: the source waits for that flow's tnext, later than now and than
\* the time its link is free, with the TrySend pending
C35_Witness ==
    /\ phase = "sim"
    /\ aborted = ""
    /\ lastEv.ev.cmd.kind = "TrySend"
    /\ ~lastEv.stale
    /\ LET src == sources[lastEv.ev.cmd.source]
       IN /\ CouldSend(src.id)
          /\ src.earliest_tnext <= cur_time
          /\ cur_time < src.tnext
          /\ src.tnext # TimeMax
          /\ BagIn([time |-> src.tnext, cmd |-> TrySendCmd(src.id, src.version)],
                   schedule)


\* this step sent this packet: its Receive was scheduled
Sends(e) ==
    /\ e.cmd.kind = "Receive"
    /\ CopiesIn(e, schedule') > CopiesIn(e, schedule)

\* C36: the access link paces its source: a packet leaves a source only at
\* or after the source's earliest_tnext, which is the time the previous
\* packet p1, sent at t1, has left the link, t1 + length(p1.size,
\* link_rate), and which only a send changes; so the next packet starts at
\* t2 >= t1 + length(p1.size, link_rate), whatever the version bumps of
\* Acks and arrivals in between.
C36_LinkPacing ==
    [][phase = "sim" =>
        /\ \A e \in BagToSet(schedule') :
              Sends(e) =>
                  LET sid == e.cmd.pkt.source_id
                  IN /\ cur_time' >= sources[sid].earliest_tnext
                     /\ sources'[sid].earliest_tnext
                          = cur_time' + length(sources[sid].link_rate, e.cmd.pkt.size)
        /\ \A sid \in DOMAIN sources :
              sources'[sid].earliest_tnext # sources[sid].earliest_tnext
                  => \E e \in BagToSet(schedule') :
                        Sends(e) /\ e.cmd.pkt.source_id = sid]_vars

\* a source with several flows has sent two packets back to back: the
\* earlier one, not yet at the bottleneck, left the link at the instant the
\* later one started, on a TrySend that an Ack or an arrival had scheduled
C36_Witness ==
    /\ phase = "sim"
    /\ aborted = ""
    /\ lastEv.ev.cmd.kind = "TrySend"
    /\ ~lastEv.stale
    /\ LET src == sources[lastEv.ev.cmd.source]
       IN /\ src.version >= 2
          /\ src.earliest_tnext > cur_time
          /\ \E e1, e2 \in BagToSet(schedule) :
                /\ e1.cmd.kind = "Receive"
                /\ e2.cmd.kind = "Receive"
                /\ e1.cmd.pkt.source_id = src.id
                /\ e2.cmd.pkt.source_id = src.id
                /\ e1.time = cur_time + src.delay2btl
                /\ e2.time = src.earliest_tnext + src.delay2btl
                /\ src.earliest_tnext = cur_time + length(src.link_rate, e2.cmd.pkt.size)


(***************************************************************************)
(* A slow access link before a fast bottleneck: Acks come back while the   *)
(* link is still busy with the packet of another flow of the same source.  *)
(***************************************************************************)
SlowLinkSources ==
    << [id |-> 1, delay2btl |-> 1, link_rate |-> 2000],
       [id |-> 2, delay2btl |-> 2, link_rate |-> 8000] >>
SlowLinkFlowLists ==
    { << FlowDesc(1, 1, 0, sz[1], 0), FlowDesc(2, 1, 0, sz[2], st) >> :
        sz \in ((SzPktMax + 1)..MaxFlowSize) \X (1..MaxFlowSize),
        st \in {0, LateStart} }
    \cup
    { << FlowDesc(1, 1, 0, sz, 0), FlowDesc(2, 1, 0, sz, 0), FlowDesc(3, 2, 0, sz, 0) >> :
        sz \in {SzPktMax + 1, MaxFlowSize} }

SlowLinkConfigs ==
    { [sources |-> SlowLinkSources, flows |-> fl, bandwidth |-> 16000,
       quanta |-> <<MaxQuantum>>, window |-> w, dctcp_marking_threshold |-> th,
       dctcp_gain |-> Gain, dctcp_ai |-> ai, sz_pktmax |-> SzPktMax,
       sz_pkthdr |-> SzPktHdr, timeout |-> None] :
        fl \in SlowLinkFlowLists, w \in Windows, th \in Thresholds,
        ai \in AdditiveIncs }

InitSlowLink == \E c \in SlowLinkConfigs : DriverRun(c)

SpecSlowLink == InitSlowLink /\ [][Next]_vars


\* C37: whenever rcv_ack updates alpha for a batch that is not the first
\* (snd_una, with the Ack's bytes, exceeds last_update_seq, and
\* last_update_seq is not 0), the batch_size by which it divides
\* marked_count is at least 1, whatever the window, a window of exactly one
\* packet included.
C37_BatchSizePositive ==
    [][(phase = "sim" /\ Dispatched("RcvAck")
          /\ HeldBy(lastEv'.ev.cmd.source, lastEv'.ev.cmd.flow)) =>
        LET f == sources[lastEv'.ev.cmd.source].flow_queue.members[lastEv'.ev.cmd.flow]
        IN (f.snd_una + lastEv'.ev.cmd.nr_bytes > f.last_update_seq
              /\ f.last_update_seq # 0)
              => f.batch_size >= 1]_vars


\* how many Bottleneck.Step events are pending: 0, 1, or 2 for two or more
StepCopies ==
    LET S == {e \in BagToSet(schedule) : e.cmd.kind = "BottleneckStep"}
    IN IF S = {} THEN 0
       ELSE IF Cardinality(S) > 1 THEN 2
       ELSE CopiesIn(CHOOSE e \in S : TRUE, schedule)

\* C38: between dispatches the bottleneck is Running if and only if exactly
\* one Bottleneck.Step is pending in the schedule (never two), and while it
\* is Blocked every sub-queue is empty: the port never idles with a packet
\* queued.
C38_RunningIffStepPending ==
    (phase = "sim" /\ error = "" /\ aborted = "") =>
        /\ btl.status = "Running" <=> StepCopies = 1
        /\ StepCopies <= 1
        /\ btl.status = "Blocked" =>
              /\ PortBytes(port, Len(port.queues)) = 0
              /\ \A i \in DOMAIN port.queues : port.queues[i].inner = <<>>


\* the bottleneck is serving a packet, its one Step pending, while packets
\* wait in two sub-queues
C38_Witness ==
    /\ phase = "sim"
    /\ aborted = ""
    /\ btl.status = "Running"
    /\ StepCopies = 1
    /\ Len(port.queues) = 2
    /\ \A i \in DOMAIN port.queues : port.queues[i].inner # <<>>


\* the packets of this flow on their way to the bottleneck
OnTheLink(id) ==
    {e \in BagToSet(schedule) : e.cmd.kind = "Receive" /\ e.cmd.pkt.flow_id = id}

\* the positions of the packets of this flow in a sub-queue of the port
QueuedAt(id, i) ==
    {k \in DOMAIN port.queues[i].inner : port.queues[i].inner[k].flow_id = id}

DepartsPending(id) ==
    {e \in BagToSet(schedule) : e.cmd.kind = "FlowDepart" /\ e.cmd.flow = id}

\* The last packet of a flow is the last in every order: nothing of the
\* flow is behind it in its sub-queue or still on the link when it is
\* queued, nothing of the flow reaches the bottleneck at or after its own
\* arrival, one copy of it exists, and the flow it came from has left the
\* flow queue of its source.
LastPacketIsLast ==
    \A d \in {cfg.flows[k] : k \in DOMAIN cfg.flows} :
        /\ \A i \in DOMAIN port.queues :
              \A k \in QueuedAt(d.id, i) :
                  port.queues[i].inner[k].is_last =>
                      /\ \A j \in QueuedAt(d.id, i) : j <= k
                      /\ OnTheLink(d.id) = {}
                      /\ ~HeldBy(d.source, d.id)
        /\ \A e \in OnTheLink(d.id) :
              e.cmd.pkt.is_last =>
                  /\ CopiesIn(e, schedule) = 1
                  /\ \A o \in OnTheLink(d.id) : o = e \/ o.time < e.time
                  /\ ~HeldBy(d.source, d.id)
        /\ \A i, j \in DOMAIN port.queues :
              (QueuedAt(d.id, i) # {} /\ QueuedAt(d.id, j) # {}) => i = j

\* A FlowDepart is under way for a flow only once, with every packet of the
\* flow dequeued and the flow not yet recorded.
DepartOnce ==
    \A d \in {cfg.flows[k] : k \in DOMAIN cfg.flows} :
        \A e \in DepartsPending(d.id) :
            /\ DepartsPending(d.id) = {e}
            /\ CopiesIn(e, schedule) = 1
            /\ ~HasRecord(d.id)
            /\ OnTheLink(d.id) = {}
            /\ \A i \in DOMAIN port.queues : QueuedAt(d.id, i) = {}
            /\ ~HeldBy(d.source, d.id)

\* A packet is the last of its flow exactly when creating it drains the
\* flow, which thereby leaves the flow queue: no packet follows it.
LastIffDrained ==
    \A e \in BagToSet(schedule') :
        Sends(e) => (e.cmd.pkt.is_last
                       <=> ~HeldBy(e.cmd.pkt.source_id, e.cmd.pkt.flow_id)')

\* C39: every flow has exactly one packet with is_last, the last one its
\* source creates for it (no packet of the flow is created after it); the
\* bottleneck dequeues the packets of a flow in the order of their
\* creation; hence the FlowDepart of a flow is dispatched exactly once, and
\* only after every packet of the flow has been dequeued: when run returns
\* every flow has departed, once.
C39_OneLastPacket ==
    /\ []((phase = "sim" /\ error = "" /\ aborted = "") =>
            /\ LastPacketIsLast
            /\ DepartOnce
            /\ Returned => \A id \in FlowIds(cfg) : Cardinality(RecordsOf(id)) = 1)
    /\ [][phase = "sim" => LastIffDrained]_vars


\* C40: in every reachable state the bytes a flow has in flight,
\* snd_nxt - snd_una, do not exceed the configured window, for every
\* sequence of sends, Acks and rate changes.
C40_InFlightWithinWindow ==
    /\ phase = "flow" => on_the_fly(flw) <= cfg.window
    /\ phase = "sim" => \A f \in MemberFlows : on_the_fly(f) <= cfg.window
====
